---- MODULE Spec2Model ----
(***************************************************************************)
(* A model of the resume command line tool: the plain-text loader and      *)
(* parser (utils/data), the argument parser and the text utilities         *)
(* (utils/config, utils/formatting), the JSON path lookup (utils/json) and *)
(* the command dispatcher with its handlers (bin/resume).                  *)
(*                                                                         *)
(* A JavaScript string is a sequence of characters; a character is a       *)
(* one-character TLA+ string, except the non-ASCII ones, which are named   *)
(* by their code point ("U+2022" is the bullet).  null is JNull and a      *)
(* string held in a nullable field is JStr(s).                             *)
(***************************************************************************)
EXTENDS Integers, Sequences, FiniteSets, TLC

VARIABLES
    pc,         \* position of the operation under way
    docLines,   \* the lines a plain-text document was written with
    docEol,     \* its line terminator
    text,       \* the text handed to parseTextToJson
    data,       \* the resume record
    jsonFile,   \* resume.json: whether it exists, whether it parses, its value
    txtFile,    \* resume.txt: whether it exists, its content
    source,     \* where loadResumeData took the record from
    inputLine,  \* the line handed to wrapText or sanitizeLine
    width,      \* the width handed to wrapText
    unicode,    \* the unicode argument of wrapText and sanitizeLine
    wrapped,    \* the lines wrapText returned
    sanitized,  \* sanitizeLine(inputLine, unicode)
    resanitized, \* sanitizeLine(sanitized, unicode)
    obj,        \* the value handed to getByPath
    steps,      \* the property names a path was written from
    pathExpr,   \* the path handed to getByPath
    result,     \* what getByPath returned
    command,    \* the simple command whose handler runs
    arg,        \* the second argument of the handler: the value of its flag
    stdout,     \* what console.log and process.stdout.write were called with
    stderr,     \* what console.error was called with
    argv,       \* process.argv.slice(2)
    commander,  \* whether the optional dependency commander is installed
    cliArgs,    \* what setupCLI returned
    flags,      \* what parseFlags returned
    ran,        \* the output actions main has entered, in order
    written,    \* the outcome of fs.writeFileSync in the save handler
    content,    \* the text handed to createBox
    box,        \* what createBox returned
    libs,       \* the optional dependencies: which are installed, which throw
    caps,       \* what getTerminalCaps returned
    header,     \* what createHeader returned
    layout,     \* what getWidth returned
    terminal    \* process.stdout: isTTY and columns (0 for undefined)

parseVars == <<docLines, docEol, text>>
loadVars == <<jsonFile, txtFile, source>>
textVars == <<inputLine, width, unicode, wrapped, sanitized, resanitized>>
pathVars == <<obj, steps, pathExpr, result>>
runVars == <<command, arg, stdout, stderr>>
cliVars == <<argv, commander, cliArgs, flags, ran, written>>
renderVars == <<content, box, libs, caps, header, layout, terminal>>
vars == <<pc, parseVars, data, loadVars, textVars, pathVars, runVars, cliVars, renderVars>>

(***************************************************************************)
(* Bounds of the model.                                                    *)
(***************************************************************************)
MaxBodyLines == 2
MaxTxtBodyLines == 1
MaxLineLen == 6
MaxWidth == 5
MaxSanitizeLen == 3
MaxSteps == 3
MaxPathLen == 4
MaxProjects == 3
MaxArgs == 2
MaxBoxLines == 2
MaxSegmentLines == 3
MaxSections == 2

(***************************************************************************)
(* Characters and the string functions of JavaScript the code uses.        *)
(***************************************************************************)
Bullet == "U+2022"
EnDash == "U+2013"
EmDash == "U+2014"

LowerSeq == <<"a","b","c","d","e","f","g","h","i","j","k","l","m","n","o","p","q","r","s","t","u","v","w","x","y","z">>
UpperSeq == <<"A","B","C","D","E","F","G","H","I","J","K","L","M","N","O","P","Q","R","S","T","U","V","W","X","Y","Z">>
DigitSeq == <<"0","1","2","3","4","5","6","7","8","9">>

Range(f) == {f[i] : i \in DOMAIN f}
LowerChars == Range(LowerSeq)
UpperChars == Range(UpperSeq)
DigitChars == Range(DigitSeq)
LetterChars == LowerChars \cup UpperChars
WordChars == LetterChars \cup DigitChars \cup {"_"}
SpaceChars == {" ", "\t", "\n", "\r"}

SetMin(S) == CHOOSE x \in S : \A y \in S : x <= y
SetMax(S) == CHOOSE x \in S : \A y \in S : x >= y

\* String.prototype.toLowerCase, one character and a whole string.
LowerChar(c) ==
    IF c \in UpperChars
    THEN LowerSeq[CHOOSE i \in DOMAIN UpperSeq : UpperSeq[i] = c]
    ELSE c
ToLowerCase(s) == [i \in 1..Len(s) |-> LowerChar(s[i])]

\* String.prototype.toUpperCase.
UpperChar(c) ==
    IF c \in LowerChars
    THEN UpperSeq[CHOOSE i \in DOMAIN LowerSeq : LowerSeq[i] = c]
    ELSE c
ToUpperCase(s) == [i \in 1..Len(s) |-> UpperChar(s[i])]

\* String.prototype.trim.
Trim(s) ==
    LET keep == {i \in 1..Len(s) : s[i] \notin SpaceChars}
    IN  IF keep = {} THEN <<>> ELSE SubSeq(s, SetMin(keep), SetMax(keep))

\* The length of the longest run of characters of cls that starts at s[i].
RunLen(s, i, cls) ==
    LET stops == {j \in i..Len(s) : s[j] \notin cls}
    IN  (IF stops = {} THEN Len(s) + 1 ELSE SetMin(stops)) - i

\* s, read from position i on, starts with kw, case ignored (the i flag).
StartsWithAtCI(s, i, kw) ==
    /\ i >= 1
    /\ i + Len(kw) - 1 <= Len(s)
    /\ \A k \in 1..Len(kw) : LowerChar(s[i + k - 1]) = LowerChar(kw[k])

\* \b after the first n characters of s, the n-th being a word character.
WordEndsAt(s, n) == n = Len(s) \/ s[n + 1] \notin WordChars

\* String.prototype.includes.
Includes(s, sub) ==
    \E i \in 1..(Len(s) - Len(sub) + 1) : SubSeq(s, i, i + Len(sub) - 1) = sub

\* text.split(/\r?\n/): the text between the line terminators, a "\r" right
\* before a "\n" belonging to the terminator.
SplitLines(t) ==
    LET nl == {i \in 1..Len(t) : t[i] = "\n"}
        starts == {1} \cup {i + 1 : i \in nl}
        nth(k) == CHOOSE s \in starts : Cardinality({x \in starts : x < s}) = k - 1
        stop(s) == SetMin({i \in nl : i >= s} \cup {Len(t) + 1})
        last(s) == IF stop(s) <= Len(t) /\ stop(s) - 1 >= s /\ t[stop(s) - 1] = "\r"
                   THEN stop(s) - 2
                   ELSE stop(s) - 1
    IN  [k \in 1..Cardinality(starts) |-> SubSeq(t, nth(k), last(nth(k)))]

\* Array.prototype.join over strings.
RECURSIVE Join(_, _)
Join(parts, sep) ==
    IF parts = <<>> THEN <<>>
    ELSE IF Len(parts) = 1 THEN parts[1]
    ELSE parts[1] \o sep \o Join(Tail(parts), sep)

JNull == [t |-> "null"]
JStr(s) == [t |-> "string", v |-> s]

(***************************************************************************)
(* utils/data: parseTextToJson and its helpers.                            *)
(***************************************************************************)
\* The keywords without the two that begin with Certifications.
HeaderKeywordsUncertified == { <<"E","d","u","c","a","t","i","o","n">>, <<"T","e","c","h","n","i","c","a","l"," ","S","k","i","l","l","s">>, <<"P","r","o","j","e","c","t","s">> }

HeaderKeywords ==
    { <<"E","d","u","c","a","t","i","o","n">>,
      <<"T","e","c","h","n","i","c","a","l"," ","S","k","i","l","l","s">>,
      <<"P","r","o","j","e","c","t","s">>,
      <<"C","e","r","t","i","f","i","c","a","t","i","o","n","s">>,
      <<"C","e","r","t","i","f","i","c","a","t","i","o","n","s"," ","a","n","d"," ","A","c","h","i","e","v","e","m","e","n","t","s">> }

\* /^(Education|Technical Skills|Projects|Certifications|...)\b/i on the
\* trimmed line.
isSectionHeader(line) ==
    LET l == Trim(line)
    IN  \E kw \in HeaderKeywords :
            StartsWithAtCI(l, 1, kw) /\ WordEndsAt(l, Len(kw))

TechnicalSkillsKw == <<"T","e","c","h","n","i","c","a","l"," ","S","k","i","l","l","s">>
CertificationsKw == <<"C","e","r","t","i","f","i","c","a","t","i","o","n","s">>
CertificationsAndKw == <<"C","e","r","t","i","f","i","c","a","t","i","o","n","s"," ","a","n","d"," ","A","c","h","i","e","v","e","m","e","n","t","s">>

normalizeHeader(line) ==
    LET l == Trim(line)
    IN  IF StartsWithAtCI(l, 1, TechnicalSkillsKw)
           /\ WordEndsAt(l, Len(TechnicalSkillsKw))
        THEN <<"S","k","i","l","l","s">>
        ELSE IF \/ StartsWithAtCI(l, 1, CertificationsAndKw)
                   /\ WordEndsAt(l, Len(CertificationsAndKw))
                \/ StartsWithAtCI(l, 1, CertificationsKw)
                   /\ WordEndsAt(l, Len(CertificationsKw))
        THEN <<"A","c","h","i","e","v","e","m","e","n","t","s">>
        ELSE l

\* /([\w.+-]+@[\w.-]+\.[A-Za-z]{2,})/ tried at position i: the first and last
\* position of the match, or <<>>.
EmailLocalChars == WordChars \cup {".", "+", "-"}
EmailDomainChars == WordChars \cup {".", "-"}
EmailAt(s, i) ==
    LET n == RunLen(s, i, EmailLocalChars)
        at == i + n
        d0 == at + 1
        m == RunLen(s, d0, EmailDomainChars)
        dots == {p \in (d0 + 1)..(d0 + m - 1) :
                    s[p] = "." /\ RunLen(s, p + 1, LetterChars) >= 2}
    IN  IF n >= 1 /\ at <= Len(s) /\ s[at] = "@" /\ dots # {}
        THEN <<i, SetMax(dots) + RunLen(s, SetMax(dots) + 1, LetterChars)>>
        ELSE <<>>

\* /(\+?\d[\d \-]{6,}\d)/ tried at position i.
PhoneBodyChars == DigitChars \cup {" ", "-"}
PhoneAt(s, i) ==
    LET p == IF s[i] = "+" THEN i + 1 ELSE i
        r == RunLen(s, p + 1, PhoneBodyChars)
        ends == {e \in (p + 7)..(p + r) : s[e] \in DigitChars}
    IN  IF p <= Len(s) /\ s[p] \in DigitChars /\ ends # {}
        THEN <<i, SetMax(ends)>>
        ELSE <<>>

\* /LinkedIn\s*:?\s*([^\s]+)/i tried at position i: the first and last
\* position of the captured group, or <<>>.
LinkedInKw == <<"L","i","n","k","e","d","I","n">>
LinkedInAt(s, i) ==
    LET a == i + Len(LinkedInKw) + RunLen(s, i + Len(LinkedInKw), SpaceChars)
        colon == a <= Len(s) /\ s[a] = ":"
        b == a + 1 + RunLen(s, a + 1, SpaceChars)
        from == IF colon /\ b <= Len(s) THEN b ELSE a
        run == {j \in from..Len(s) : \A k \in from..j : s[k] \notin SpaceChars}
    IN  IF StartsWithAtCI(s, i, LinkedInKw) /\ from <= Len(s)
        THEN <<from, SetMax(run)>>
        ELSE <<>>

\* String.prototype.match without the g flag, then m?.[1] || null: the text
\* of the leftmost match, given the match tried at each position.
LeftmostMatch(s, at) ==
    LET hits == {i \in 1..Len(s) : at[i] # <<>>}
    IN  IF hits = {} THEN JNull
        ELSE JStr(SubSeq(s, at[SetMin(hits)][1], at[SetMin(hits)][2]))

\* A variant of the e-mail pattern whose last part is three letters or more.
emailMatchLongDomain(s) ==
    LET at == [i \in 1..Len(s) |-> EmailAt(s, i)]
        hits == {i \in 1..Len(s) :
                    at[i] # <<>> /\ RunLen(s, at[i][2] - 2, LetterChars) >= 3}
    IN  IF hits = {} THEN JNull
        ELSE JStr(SubSeq(s, at[SetMin(hits)][1], at[SetMin(hits)][2]))

emailMatch(s) == LeftmostMatch(s, [i \in 1..Len(s) |-> EmailAt(s, i)])
phoneMatch(s) == LeftmostMatch(s, [i \in 1..Len(s) |-> PhoneAt(s, i)])
linkedinMatch(s) == LeftmostMatch(s, [i \in 1..Len(s) |-> LinkedInAt(s, i)])

\* A variant of the loop that leaves out the push of the last section.
RECURSIVE SectionLoopOpenEnd(_, _, _, _)
SectionLoopOpenEnd(lines, i, sections, cur) ==
    IF i > Len(lines)
    THEN sections
    ELSE IF isSectionHeader(lines[i])
    THEN SectionLoopOpenEnd(lines, i + 1, sections \o cur,
                            <<[title |-> normalizeHeader(lines[i]), lines |-> <<>>]>>)
    ELSE IF cur # <<>>
    THEN SectionLoopOpenEnd(lines, i + 1, sections,
                            <<[cur[1] EXCEPT !.lines = Append(@, lines[i])]>>)
    ELSE SectionLoopOpenEnd(lines, i + 1, sections, cur)

\* The loop of parseTextToJson from line i on: sections holds the sections
\* already closed, cur the open one (<<>> for null).
RECURSIVE SectionLoop(_, _, _, _)
SectionLoop(lines, i, sections, cur) ==
    IF i > Len(lines)
    THEN sections \o cur
    ELSE IF isSectionHeader(lines[i])
    THEN SectionLoop(lines, i + 1, sections \o cur,
                     <<[title |-> normalizeHeader(lines[i]), lines |-> <<>>]>>)
    ELSE IF cur # <<>>
    THEN SectionLoop(lines, i + 1, sections,
                     <<[cur[1] EXCEPT !.lines = Append(@, lines[i])]>>)
    ELSE SectionLoop(lines, i + 1, sections, cur)

\* A variant of the header lines that keeps the white space around them.
HeaderLineUntrimmed(lines, i) == IF i + 1 <= Len(lines) THEN lines[i + 1] ELSE <<>>

\* lines[i]?.trim() || '' (i counted from 0 as in the code).
HeaderLine(lines, i) == IF i + 1 <= Len(lines) THEN Trim(lines[i + 1]) ELSE <<>>

parseTextToJson(t) ==
    LET lines == SplitLines(t)
        contactLine == HeaderLine(lines, 2)
    IN  [ name |-> HeaderLine(lines, 0),
          location |-> HeaderLine(lines, 1),
          contact |-> [ email |-> emailMatch(contactLine),
                        phone |-> phoneMatch(contactLine),
                        linkedin |-> linkedinMatch(contactLine) ],
          sections |-> SectionLoop(lines, 4, <<>>, <<>>) ]

(***************************************************************************)
(* Plain-text documents: up to three header lines (name, location,         *)
(* contact) and, after a complete header, up to MaxBodyLines more lines.   *)
(***************************************************************************)
NameLines ==
    { <<>>, <<"A","n","n"," ","L","e","e">>, <<" "," ","A","n","n"," ">>, <<"\t","P","u","n","e",","," ","I","N"," "," ">> }

ContactLines ==
    { <<>>,
      <<"c","a","l","l"," ","m","e">>,
      <<" ","a","n","n","@","x",".","i","o"," ">>,
      <<"+","9","1"," ","7","0","2","-","1","1","3"," ","4","1","6","6">>,
      <<"l","i","n","k","e","d","i","n"," ",":"," ","a","n","n",".","l">>,
      <<"a",".","b","@","x",".","c","o",".","u","k"," ","U+2022"," ","+","1"," ","2","3","4","5","6","7","8"," ","U+2022"," ","L","i","n","k","e","d","I","n",":"," ","i","n","/","a","n","n">> }

BodyLines ==
    { <<>>,
      <<"E","d","u","c","a","t","i","o","n">>,
      <<" "," ","p","r","o","j","e","c","t","s",":"," ","2","0","2","4">>,
      <<"T","e","c","h","n","i","c","a","l"," ","S","k","i","l","l","s">>,
      <<"C","e","r","t","i","f","i","c","a","t","i","o","n","s"," ","&"," ","A","c","h","i","e","v","e","m","e","n","t","s">>,
      <<"E","d","u","c","a","t","i","o","n","a","l"," ","n","o","t","e","s">>,
      <<"-"," ","B",".","E","."," ","i","n"," ","C","S","E">> }

EolChoices == { <<"\n">>, <<"\r", "\n">> }

RECURSIVE SeqsUpTo(_, _)
SeqsUpTo(S, n) ==
    IF n = 0 THEN {<<>>}
    ELSE LET shorter == SeqsUpTo(S, n - 1)
         IN  shorter \cup {Append(q, x) : q \in {r \in shorter : Len(r) = n - 1}, x \in S}

Headers ==
    {<<>>}
    \cup {<<n>> : n \in NameLines}
    \cup {<<n, l>> : n \in NameLines, l \in NameLines}
    \cup {<<n, l, c>> : n \in NameLines, l \in NameLines, c \in ContactLines}

Documents(maxBody) ==
    {h \in Headers : Len(h) < 3}
    \cup {h \o b : h \in {x \in Headers : Len(x) = 3}, b \in SeqsUpTo(BodyLines, maxBody)}

JUndefined == [t |-> "undefined"]

NoFile == [exists |-> FALSE, valid |-> FALSE, content |-> JUndefined]
LoadIdle == jsonFile = NoFile /\ txtFile = NoFile /\ source = "none"
ParseIdle == docLines = <<>> /\ docEol = <<"\n">> /\ text = <<>>
PathIdle == obj = JUndefined /\ steps = <<>> /\ pathExpr = <<>> /\ result = JUndefined
NotWritten == [status |-> "none"]
CliIdle ==
    /\ argv = <<>> /\ commander = FALSE /\ cliArgs = <<>>
    /\ flags = <<>> /\ ran = <<>> /\ written = NotWritten
NoLibs == [boxen |-> FALSE, figlet |-> "absent", gradient |-> "absent", clear |-> FALSE, chalk |-> FALSE]
NoTerminal == [isTTY |-> FALSE, columns |-> 0]
RenderIdle ==
    /\ content = <<>> /\ box = <<>> /\ libs = NoLibs
    /\ caps = JUndefined /\ header = JUndefined /\ layout = JUndefined
    /\ terminal = NoTerminal
RunIdle == command = <<>> /\ arg = JUndefined /\ stdout = <<>> /\ stderr = <<>>
TextIdle ==
    /\ inputLine = <<>> /\ width = 0 /\ unicode = FALSE
    /\ wrapped = <<>> /\ sanitized = <<>> /\ resanitized = <<>>

(***************************************************************************)
(* SpecParse: parseTextToJson applied to every document.                   *)
(***************************************************************************)
ParseInit ==
    /\ pc = "parse"
    /\ docLines \in Documents(MaxBodyLines)
    /\ docEol \in EolChoices
    /\ text = Join(docLines, docEol)
    /\ data = JUndefined
    /\ LoadIdle
    /\ TextIdle
    /\ PathIdle
    /\ RunIdle
    /\ CliIdle
    /\ RenderIdle

ParseTextToJson ==
    /\ pc = "parse"
    /\ data' = parseTextToJson(text)
    /\ pc' = "return"
    /\ UNCHANGED <<renderVars, parseVars, loadVars, textVars, pathVars, runVars, cliVars>>

ParseNext == ParseTextToJson

SpecParse == ParseInit /\ [][ParseNext]_vars

\* C1: for a text of at least three lines the record's name is the trimmed
\* first line and its location the trimmed second line, whatever the third
\* line holds.
C1_NameLocationFromHeader ==
    (pc = "return" /\ Len(docLines) >= 3) =>
        /\ data.name = Trim(docLines[1])
        /\ data.location = Trim(docLines[2])

\* A text whose contact line matches none of the three patterns and whose
\* first two lines had surrounding blanks to trim.
C1_Witness ==
    /\ pc = "return"
    /\ Len(docLines) >= 3
    /\ data.contact = [email |-> JNull, phone |-> JNull, linkedin |-> JNull]
    /\ docLines[3] # <<>>
    /\ data.name # <<>> /\ data.name # docLines[1]
    /\ data.location # <<>> /\ data.location # docLines[2]

(***************************************************************************)
(* Records as resume.json holds them: every section carries the payload of *)
(* its variant.                                                            *)
(***************************************************************************)
Project(name, links) ==
    [ name |-> name,
      subtitle |-> <<"W","o","r","k","s","p","a","c","e"," ","M","a","n","a","g","e","r">>,
      stack |-> << <<"N","e","x","t",".","j","s">>, <<"N","o","d","e",".","j","s">> >>,
      highlights |-> << <<"R","e","a","l","-","t","i","m","e"," ","p","r","e","s","e","n","c","e">> >>,
      links |-> links ]

NoLinks == [github |-> JNull, demo |-> JNull]
RepoLink == [github |-> JStr(<<"g","i","t","h","u","b",".","c","o","m","/","x","/","y">>), demo |-> JNull]

Resume(name, projects) ==
    [ name |-> name,
      location |-> <<"P","u","n","e",","," ","I","N">>,
      contact |-> [ email |-> JStr(<<"a","@","b",".","c","o","m">>),
                    phone |-> JNull,
                    linkedin |-> JStr(<<"a","n","n">>) ],
      sections |->
        << [ title |-> <<"E","d","u","c","a","t","i","o","n">>,
             items |-> << [ institution |-> <<"I","G","C","E">>, degree |-> <<"B",".","E",".">>,
                            period |-> <<"D","e","c"," ","2","0","2","0"," ","-"," ","M","a","y"," ","2","0","2","4">> ] >> ],
           [ title |-> <<"T","e","c","h","n","i","c","a","l"," ","S","k","i","l","l","s">>,
             categories |-> << [ name |-> <<"F","r","o","n","t","e","n","d">>,
                                 skills |-> << <<"H","T","M","L">>, <<"C","S","S">> >> ] >> ],
           [ title |-> <<"P","r","o","j","e","c","t","s">>, projects |-> projects ],
           [ title |-> <<"A","c","h","i","e","v","e","m","e","n","t","s">>,
             achievements |-> << [ name |-> <<"M","o","n","g","o","D","B"," ","P","a","t","h">>,
                                   date |-> <<"J","u","l"," ","2","0","2","5">> ] >> ] >> ]

JsonResumes ==
    { Resume(<<"A","n","n"," ","L","e","e">>,
             << Project(<<"T","i","m","e","l","i","n","e">>, RepoLink), Project(<<"A","t","l","a","s"," ","2">>, NoLinks) >>),
      Resume(<<"B","o">>, << >>) }

(***************************************************************************)
(* utils/data: loadResumeData.  JSON.parse either returns the value of the *)
(* file or throws; the throw is caught and the text files are tried.       *)
(***************************************************************************)
EmbeddedText ==
<<"R","A","K","E","S","H"," ","R","A","M","K","I","S","H","O","R"," ",
      "S","I","N","G","H","\n","N","a","v","i"," ","M","u","m","b","a","i",
      ","," ","I","N","\n","r","a","k","e","s","h","s","i","n","g","h","t",
      "c","p","@","g","m","a","i","l",".","c","o","m"," ","U+2022"," ","+",
      "9","1"," ","7","0","2","1","1","3","4","1","6","6"," ","U+2022"," ",
      "L","i","n","k","e","d","I","n",":"," ","i","a","m","r","a","k","e",
      "s","h",".","c","o","d","e","s","\n","\n","E","d","u","c","a","t","i",
      "o","n","\n","S","m","t","."," ","I","n","d","i","r","a"," ","G","a",
      "n","d","h","i"," ","C","o","l","l","e","g","e"," ","o","f"," ","E",
      "n","g","i","n","e","e","r","i","n","g"," ","|"," ","G","h","a","n",
      "s","o","l","i"," ","(","D","e","c"," ","2","0","2","0"," ","-"," ",
      "M","a","y"," ","2","0","2","4",")","\n","-"," ","B","a","c","h","e",
      "l","o","r"," ","o","f"," ","E","n","g","i","n","e","e","r","i","n",
      "g"," ","i","n"," ","C","S","E"," ","(","I","O","T",")"," ","U+2022",
      " ","C","G","P","A",":"," ","8",".","2","\n","\n","T","e","c","h","n",
      "i","c","a","l"," ","S","k","i","l","l","s","\n","F","r","o","n","t",
      "e","n","d",":"," ","H","T","M","L",","," ","C","S","S",","," ","J",
      "a","v","a","S","c","r","i","p","t"," ","(","E","S","6","+",")",",",
      " ","T","y","p","e","S","c","r","i","p","t",","," ","R","e","a","c",
      "t",".","j","s",","," ","N","e","x","t",".","j","s","\n","B","a","c",
      "k","e","n","d"," ","&"," ","D","a","t","a","b","a","s","e","s",":",
      " ","N","o","d","e",".","j","s",","," ","E","x","p","r","e","s","s",
      ".","j","s",","," ","M","o","n","g","o","D","B",","," ","P","o","s",
      "t","g","r","e","S","Q","L","\n","\n","P","r","o","j","e","c","t","s",
      "\n","T","i","m","e","l","i","n","e"," ","U+2013"," ","R","o","l","e",
      "-","b","a","s","e","d"," ","W","o","r","k","s","p","a","c","e"," ",
      "M","a","n","a","g","e","r"," ","|"," ","N","e","x","t",".","j","s",
      ","," ","S","o","c","k","e","t",".","i","o",","," ","N","o","d","e",
      ".","j","s","\n","-"," ","R","e","a","l","-","t","i","m","e"," ","p",
      "r","e","s","e","n","c","e"," ","t","r","a","c","k","i","n","g"," ",
      "a","n","d"," ","a","n","a","l","y","t","i","c","s","\n","\n","C","e",
      "r","t","i","f","i","c","a","t","i","o","n","s"," ","&"," ","A","c",
      "h","i","e","v","e","m","e","n","t","s","\n","-"," ","M","o","n","g",
      "o","D","B"," ","N","o","d","e",".","j","s"," ","D","e","v","e","l",
      "o","p","e","r"," ","P","a","t","h"," ","U+2013"," ","M","o","n","g",
      "o","D","B"," ","U","n","i","v","e","r","s","i","t","y"," ","(","J",
      "u","l"," ","2","0","2","5",")">>

JsonFiles ==
    { NoFile, [exists |-> TRUE, valid |-> FALSE, content |-> JUndefined] }
    \cup {[exists |-> TRUE, valid |-> TRUE, content |-> r] : r \in JsonResumes}

LoadInit ==
    /\ pc = "load"
    /\ jsonFile \in JsonFiles
    /\ \/ /\ docLines \in Documents(MaxTxtBodyLines)
          /\ docEol \in EolChoices
          /\ txtFile = [exists |-> TRUE, valid |-> TRUE,
                        content |-> Join(docLines, docEol)]
       \/ /\ docLines = <<>>
          /\ docEol = <<"\n">>
          /\ txtFile = NoFile
    /\ text = <<>>
    /\ data = JUndefined
    /\ source = "none"
    /\ TextIdle
    /\ PathIdle
    /\ RunIdle
    /\ CliIdle
    /\ RenderIdle

\* fs.existsSync(jsonPath) holds and JSON.parse(raw) returns.
LoadJson ==
    /\ pc = "load"
    /\ jsonFile.exists /\ jsonFile.valid
    /\ data' = jsonFile.content
    /\ source' = "json"
    /\ pc' = "return"
    /\ UNCHANGED <<renderVars, parseVars, jsonFile, txtFile, textVars, pathVars, runVars, cliVars>>

\* fs.existsSync(jsonPath) holds and JSON.parse(raw) throws.
LoadJsonThrows ==
    /\ pc = "load"
    /\ jsonFile.exists /\ ~jsonFile.valid
    /\ pc' = "catch"
    /\ UNCHANGED <<renderVars, parseVars, data, loadVars, textVars, pathVars, runVars, cliVars>>

\* A variant of the catch clause that lets the error of JSON.parse out.
LoadJsonRethrows ==
    /\ pc = "catch"
    /\ pc' = "raised"
    /\ UNCHANGED <<renderVars, parseVars, data, loadVars, textVars, pathVars, runVars, cliVars>>

\* catch { }: fall through to the text files.
LoadJsonCatch ==
    /\ pc = "catch"
    /\ pc' = "text"
    /\ UNCHANGED <<renderVars, parseVars, data, loadVars, textVars, pathVars, runVars, cliVars>>

LoadJsonMissing ==
    /\ pc = "load"
    /\ ~jsonFile.exists
    /\ pc' = "text"
    /\ UNCHANGED <<renderVars, parseVars, data, loadVars, textVars, pathVars, runVars, cliVars>>

LoadTxt ==
    /\ pc = "text"
    /\ txtFile.exists
    /\ text' = txtFile.content
    /\ source' = "txt"
    /\ pc' = "parse"
    /\ UNCHANGED <<renderVars, docLines, docEol, data, jsonFile, txtFile, textVars, pathVars, runVars, cliVars>>

LoadEmbedded ==
    /\ pc = "text"
    /\ ~txtFile.exists
    /\ text' = EmbeddedText
    /\ source' = "embedded"
    /\ pc' = "parse"
    /\ UNCHANGED <<renderVars, docLines, docEol, data, jsonFile, txtFile, textVars, pathVars, runVars, cliVars>>

LoadNext ==
    \/ LoadJson
    \/ LoadJsonThrows
    \/ LoadJsonCatch
    \/ LoadJsonMissing
    \/ LoadTxt
    \/ LoadEmbedded
    \/ ParseTextToJson

SpecLoad == LoadInit /\ [][LoadNext]_vars

(***************************************************************************)
(* bin/resume: the section lookup of the command handlers.                 *)
(***************************************************************************)
\* data.sections.find((s) => s.title.toLowerCase().includes(type)): the index
\* of the section found, 0 for undefined.
getSection(d, type) ==
    LET found == {i \in 1..Len(d.sections) :
                     Includes(ToLowerCase(d.sections[i].title), type)}
    IN  IF found = {} THEN 0 ELSE SetMin(found)

SectionTypes == { <<"e","d","u","c","a","t","i","o","n">>, <<"s","k","i","l","l">>, <<"p","r","o","j","e","c","t">>, <<"a","c","h","i","e","v","e","m","e","n","t">> }

\* C2: parsing the embedded default document yields a section of each of the
\* four kinds the document holds: an education, a skills, a projects and an
\* achievements section, each found under its type by the section lookup.
C2_EmbeddedSections ==
    (pc = "return" /\ source = "embedded") =>
        /\ \A type \in SectionTypes : getSection(data, type) # 0
        /\ [i \in 1..Len(data.sections) |-> data.sections[i].title]
             = << <<"E","d","u","c","a","t","i","o","n">>, <<"S","k","i","l","l","s">>, <<"P","r","o","j","e","c","t","s">>, <<"A","c","h","i","e","v","e","m","e","n","t","s">> >>

C2_Witness ==
    /\ pc = "return"
    /\ source = "embedded"
    /\ Len(data.sections) = 4
    /\ \A i \in 1..4 : data.sections[i].lines # <<>>

\* C8: loadResumeData returns the parsed resume.json when the file exists and
\* parses; otherwise, nothing being raised, the parse of resume.txt when that
\* file exists; otherwise the parse of the embedded document, which is never
\* used while resume.txt exists.
C8_Expected ==
    IF jsonFile.exists /\ jsonFile.valid THEN jsonFile.content
    ELSE IF txtFile.exists THEN parseTextToJson(txtFile.content)
    ELSE parseTextToJson(EmbeddedText)

C8_LoadOrder ==
    /\ pc # "raised"
    /\ pc = "return" => data = C8_Expected
    /\ txtFile.exists => source # "embedded"
    /\ (jsonFile.exists /\ jsonFile.valid) => source \in {"none", "json"}

\* Malformed resume.json beside a resume.txt: the text file was parsed.
C8_Witness ==
    /\ pc = "return"
    /\ jsonFile.exists /\ ~jsonFile.valid
    /\ txtFile.exists
    /\ source = "txt"
    /\ data.name # <<>>

(***************************************************************************)
(* utils/formatting: wrapCore, wrapText and sanitizeLine.                  *)
(***************************************************************************)
\* text.split(/\s+/): the pieces between the runs of white space; a run at
\* either end leaves an empty piece there.
RECURSIVE SplitSpaces(_)
SplitSpaces(s) ==
    LET gaps == {i \in 1..Len(s) : s[i] \in SpaceChars}
    IN  IF gaps = {} THEN <<s>>
        ELSE LET i == SetMin(gaps)
                 n == RunLen(s, i, SpaceChars)
             IN  <<SubSeq(s, 1, i - 1)>> \o SplitSpaces(SubSeq(s, i + n, Len(s)))

\* The for loop of wrapCore from word k on, and the push of the last line.
RECURSIVE WrapLoop(_, _, _, _, _)
WrapLoop(words, k, lines, currentLine, w) ==
    IF k > Len(words)
    THEN IF currentLine # <<>> THEN Append(lines, currentLine) ELSE lines
    ELSE IF currentLine = <<>>
    THEN WrapLoop(words, k + 1, lines, words[k], w)
    ELSE IF Len(currentLine \o <<" ">> \o words[k]) <= w
    THEN WrapLoop(words, k + 1, lines, currentLine \o <<" ">> \o words[k], w)
    ELSE WrapLoop(words, k + 1, Append(lines, currentLine), words[k], w)

wrapCore(t, w) == WrapLoop(SplitSpaces(t), 1, <<>>, <<>>, w)

\* ' '.repeat(n)
Spaces(n) == [i \in 1..n |-> " "]

BulletChars == {Bullet, "-"}
LineTerminators == {"\n", "\r"}

\* text.match(/^(\s*)([•\-])\s+(.*)$/): <<space, bullet, rest>>, or <<>> for
\* no match.  The dot matches no line terminator.
BulletMatch(t) ==
    LET n == RunLen(t, 1, SpaceChars)
        g == RunLen(t, n + 2, SpaceChars)
        rest == SubSeq(t, n + 2 + g, Len(t))
    IN  IF /\ n + 1 <= Len(t)
           /\ t[n + 1] \in BulletChars
           /\ g >= 1
           /\ \A i \in 1..Len(rest) : rest[i] \notin LineTerminators
        THEN <<SubSeq(t, 1, n), <<t[n + 1]>>, rest>>
        ELSE <<>>

\* A variant of the hanging indent that is one space short.
HangingIndentShort(prefix) == Spaces(Len(prefix) - 1)

\* The hanging indent of a continuation line of a bullet.
HangingIndent(prefix) == Spaces(Len(prefix))

wrapText(t, w, u) ==
    LET m == BulletMatch(t)
    IN  IF m # <<>>
        THEN LET b == IF u THEN Bullet ELSE "-"
                 prefix == m[1] \o <<b, " ">>
                 core == wrapCore(m[3], w - Len(prefix))
             IN  [index \in 1..Len(core) |->
                     IF index = 1 THEN prefix \o core[index]
                     ELSE HangingIndent(prefix) \o core[index]]
        ELSE wrapCore(t, w)

\* String.prototype.replace(/[set]/g, by).
ReplaceAll(s, set, by) == [i \in 1..Len(s) |-> IF s[i] \in set THEN by ELSE s[i]]

BoxChars == {"U+250C", "U+2510", "U+2514", "U+2518", "U+2500", "U+2502"}
LeftDoubleQuote == "U+201C"
RightDoubleQuote == "U+201D"
LeftSingleQuote == "U+2018"
RightSingleQuote == "U+2019"

\* A variant that replaces in one pass, and the bullet by an en dash.
sanitizeOnePass(l, u) ==
    IF u THEN l
    ELSE [i \in 1..Len(l) |->
            IF l[i] = Bullet THEN EnDash
            ELSE IF l[i] \in {EnDash, EmDash} \cup BoxChars THEN "-"
            ELSE l[i]]

\* The two last patterns of the source, /[""]/g and /['']/g, hold the ASCII
\* quotation mark and the ASCII apostrophe.
sanitizeLine(l, u) ==
    IF u THEN l
    ELSE ReplaceAll(
           ReplaceAll(
             ReplaceAll(
               ReplaceAll(
                 ReplaceAll(l, {Bullet}, "-"),
                 {EnDash, EmDash}, "-"),
               BoxChars, "-"),
             {"\""}, "\""),
           {"'"}, "'")

(***************************************************************************)
(* SpecWrap: wrapText applied to every line over a small alphabet, for     *)
(* every width up to MaxWidth.                                             *)
(***************************************************************************)
LineChars == {" ", "-", Bullet, "a"}

WrapInit ==
    /\ pc = "wrap"
    /\ inputLine \in SeqsUpTo(LineChars, MaxLineLen)
    /\ width \in 0..MaxWidth
    /\ unicode \in BOOLEAN
    /\ wrapped = <<>>
    /\ sanitized = <<>>
    /\ resanitized = <<>>
    /\ data = JUndefined
    /\ ParseIdle
    /\ LoadIdle
    /\ PathIdle
    /\ RunIdle
    /\ CliIdle
    /\ RenderIdle

WrapText ==
    /\ pc = "wrap"
    /\ wrapped' = wrapText(inputLine, width, unicode)
    /\ pc' = "return"
    /\ UNCHANGED <<renderVars, parseVars, data, loadVars, pathVars, runVars, cliVars, inputLine, width, unicode, sanitized, resanitized>>

WrapNext == WrapText

SpecWrap == WrapInit /\ [][WrapNext]_vars

\* A bullet line as the claim describes it: leading spaces, a bullet or a
\* hyphen, white space, text.  Its prefix is the leading spaces, the bullet
\* and one space.
C3_LeadingSpaces(l) == RunLen(l, 1, {" "})
C3_IsBulletLine(l) ==
    LET n == C3_LeadingSpaces(l)
    IN  /\ n + 2 <= Len(l)
        /\ l[n + 1] \in {Bullet, "-"}
        /\ l[n + 2] = " "
C3_PrefixLen(l) == C3_LeadingSpaces(l) + 2

\* C3: every continuation line of a wrapped bullet line starts with at least
\* as many spaces as the bullet prefix is long, whatever the width.
C3_HangingIndent ==
    (pc = "return" /\ C3_IsBulletLine(inputLine)) =>
        \A k \in 2..Len(wrapped) :
            /\ Len(wrapped[k]) >= C3_PrefixLen(inputLine)
            /\ \A i \in 1..C3_PrefixLen(inputLine) : wrapped[k][i] = " "

\* An indented bullet line wrapped into two lines.
C3_Witness ==
    /\ pc = "return"
    /\ C3_IsBulletLine(inputLine)
    /\ C3_LeadingSpaces(inputLine) >= 1
    /\ Len(wrapped) >= 2
    /\ wrapped[2] = Spaces(C3_PrefixLen(inputLine)) \o <<"a">>

(***************************************************************************)
(* SpecSanitize: sanitizeLine applied to a line, and to its own result.    *)
(***************************************************************************)
SanitizeChars ==
    {"a", "-", "\"", "'", Bullet, EnDash, EmDash, "U+250C", "U+2502",
     LeftDoubleQuote, RightSingleQuote}

SanitizeInit ==
    /\ pc = "sanitize"
    /\ inputLine \in SeqsUpTo(SanitizeChars, MaxSanitizeLen)
    /\ unicode \in BOOLEAN
    /\ width = 0
    /\ wrapped = <<>>
    /\ sanitized = <<>>
    /\ resanitized = <<>>
    /\ data = JUndefined
    /\ ParseIdle
    /\ LoadIdle
    /\ PathIdle
    /\ RunIdle
    /\ CliIdle
    /\ RenderIdle

SanitizeLine ==
    /\ pc = "sanitize"
    /\ sanitized' = sanitizeLine(inputLine, unicode)
    /\ pc' = "once"
    /\ UNCHANGED <<renderVars, parseVars, data, loadVars, pathVars, runVars, cliVars, inputLine, width, unicode, wrapped, resanitized>>

SanitizeAgain ==
    /\ pc = "once"
    /\ resanitized' = sanitizeLine(sanitized, unicode)
    /\ pc' = "twice"
    /\ UNCHANGED <<renderVars, parseVars, data, loadVars, pathVars, runVars, cliVars, inputLine, width, unicode, wrapped, sanitized>>

SanitizeNext == SanitizeLine \/ SanitizeAgain

SpecSanitize == SanitizeInit /\ [][SanitizeNext]_vars

\* The characters the claim names as substituted.
C4_Substituted ==
    {Bullet, EnDash, EmDash} \cup BoxChars
    \cup {LeftDoubleQuote, RightDoubleQuote, LeftSingleQuote, RightSingleQuote}

\* C4: in ASCII mode sanitizing a sanitized line changes nothing, and a line
\* that holds none of the substituted characters is returned as it is.
C4_Idempotent ==
    /\ (pc = "twice" /\ ~unicode) => resanitized = sanitized
    /\ (pc \in {"once", "twice"} /\ ~unicode
          /\ \A i \in 1..Len(inputLine) : inputLine[i] \notin C4_Substituted)
        => sanitized = inputLine

\* A line with a bullet, sanitized twice.
C4_Witness ==
    /\ pc = "twice"
    /\ ~unicode
    /\ \E i \in 1..Len(inputLine) : inputLine[i] = Bullet
    /\ sanitized # inputLine
    /\ resanitized = sanitized

(***************************************************************************)
(* utils/json: getByPath.  A JSON value is an object (a function from      *)
(* property names), an array, a string or null.  Property names here are   *)
(* written over letters and digits only, so the inherited properties of    *)
(* JavaScript values (length, constructor) cannot be named.                *)
(***************************************************************************)
JObj(f) == [t |-> "object", v |-> f]
JArr(a) == [t |-> "array", v |-> a]
JTypeError == [t |-> "TypeError"]

\* Number.prototype.toString for a natural number.
RECURSIVE NumberToString(_)
NumberToString(n) ==
    IF n < 10 THEN <<DigitSeq[n + 1]>>
    ELSE NumberToString(n \div 10) \o <<DigitSeq[(n % 10) + 1]>>

\* cur[p]: an own property of an object, an element of an array, a character
\* of a string, otherwise undefined; a TypeError on null and undefined.
GetProp(cur, p) ==
    IF cur.t \in {"null", "undefined"} THEN JTypeError
    ELSE IF cur.t = "object"
    THEN IF p \in DOMAIN cur.v THEN cur.v[p] ELSE JUndefined
    ELSE IF cur.t = "array"
    THEN IF \E k \in 1..Len(cur.v) : p = NumberToString(k - 1)
         THEN cur.v[CHOOSE k \in 1..Len(cur.v) : p = NumberToString(k - 1)]
         ELSE JUndefined
    ELSE IF cur.t = "string"
    THEN IF \E k \in 1..Len(cur.v) : p = NumberToString(k - 1)
         THEN JStr(<<cur.v[CHOOSE k \in 1..Len(cur.v) : p = NumberToString(k - 1)]>>)
         ELSE JUndefined
    ELSE JUndefined

\* pathExpr.replace(/\[(\d+)\]/g, '.$1') from position i on.
RECURSIVE BracketsToDots(_, _)
BracketsToDots(s, i) ==
    IF i > Len(s) THEN <<>>
    ELSE LET n == RunLen(s, i + 1, DigitChars)
         IN  IF s[i] = "[" /\ n >= 1 /\ i + n + 1 <= Len(s) /\ s[i + n + 1] = "]"
             THEN <<".">> \o SubSeq(s, i + 1, i + n) \o BracketsToDots(s, i + n + 2)
             ELSE <<s[i]>> \o BracketsToDots(s, i + 1)

\* norm.split('.').filter(Boolean): the non-empty pieces between the dots.
RECURSIVE SplitDots(_)
SplitDots(s) ==
    LET dots == {i \in 1..Len(s) : s[i] = "."}
    IN  IF dots = {} THEN (IF s = <<>> THEN <<>> ELSE <<s>>)
        ELSE LET i == SetMin(dots)
                 first == SubSeq(s, 1, i - 1)
             IN  (IF first = <<>> THEN <<>> ELSE <<first>>)
                 \o SplitDots(SubSeq(s, i + 1, Len(s)))

\* cur === null, a variant that lets undefined through.
IsNull(cur) == cur.t = "null"

\* cur == null
IsNullish(cur) == cur.t \in {"null", "undefined"}

\* The for loop of getByPath from part k on; a TypeError ends it.
RECURSIVE PathLoop(_, _, _)
PathLoop(cur, parts, k) ==
    IF k > Len(parts) \/ cur = JTypeError THEN cur
    ELSE IF IsNullish(cur) THEN JUndefined
    ELSE PathLoop(GetProp(cur, parts[k]), parts, k + 1)

getByPath(o, p) ==
    IF p = <<>> THEN o
    ELSE PathLoop(o, SplitDots(BracketsToDots(p, 1)), 1)

(***************************************************************************)
(* SpecPath: getByPath applied to a value and either a path written from a *)
(* sequence of property names, in dot or in bracket form, or any string    *)
(* over the characters of paths.                                           *)
(***************************************************************************)
PathValues ==
    { JObj([k \in { <<"a">>, <<"b">> } |->
              IF k = <<"a">>
              THEN JObj([j \in { <<"b">> } |-> JStr(<<"a","@","b",".","c","o","m">>)])
              ELSE JArr(<< JObj([j \in { <<"a">> } |-> JStr(<<"x">>)]), JStr(<<"y","z">>) >>)]),
      JObj([k \in { <<"a">>, <<"0">> } |->
              IF k = <<"a">> THEN JNull ELSE JArr(<< JArr(<< JStr(<<"q">>) >>) >>)]),
      JArr(<< JObj([j \in { <<"b">> } |-> JNull]), JNull >>),
      JNull }

StepNames == { <<"a">>, <<"b">>, <<"0">>, <<"1">> }
PathChars == {"a", "b", "0", "1", ".", "[", "]"}

IsIndex(s) == s # <<>> /\ \A i \in 1..Len(s) : s[i] \in DigitChars

\* "a.0.b": the names joined by dots.
DotForm(names) == Join(names, <<".">>)

\* "a[0].b": an index written in brackets, a name after a dot.
RECURSIVE BracketForm(_, _)
BracketForm(names, k) ==
    IF k > Len(names) THEN <<>>
    ELSE (IF IsIndex(names[k]) THEN <<"[">> \o names[k] \o <<"]">>
          ELSE IF k = 1 THEN names[k]
          ELSE <<".">> \o names[k])
         \o BracketForm(names, k + 1)

PathInit ==
    /\ pc = "lookup"
    /\ obj \in PathValues
    /\ \/ /\ steps \in SeqsUpTo(StepNames, MaxSteps)
          /\ pathExpr \in {DotForm(steps), BracketForm(steps, 1)}
       \/ /\ steps = <<>>
          /\ pathExpr \in SeqsUpTo(PathChars, MaxPathLen)
    /\ result = JUndefined
    /\ data = JUndefined
    /\ ParseIdle
    /\ LoadIdle
    /\ TextIdle
    /\ RunIdle
    /\ CliIdle
    /\ RenderIdle

GetByPath ==
    /\ pc = "lookup"
    /\ result' = getByPath(obj, pathExpr)
    /\ pc' = "return"
    /\ UNCHANGED <<renderVars, parseVars, data, loadVars, textVars, runVars, cliVars, obj, steps, pathExpr>>

PathNext == GetByPath

SpecPath == PathInit /\ [][PathNext]_vars

\* The value stored under a sequence of property names; undefined when a
\* name is absent on the way or the value reached has no properties.
RECURSIVE C5_Stored(_, _)
C5_Stored(v, names) ==
    IF names = <<>> THEN v
    ELSE IF v.t = "object"
    THEN IF names[1] \in DOMAIN v.v
         THEN C5_Stored(v.v[names[1]], Tail(names))
         ELSE JUndefined
    ELSE IF v.t \in {"array", "string"}
    THEN LET at == {k \in 1..Len(v.v) : names[1] = NumberToString(k - 1)}
         IN  IF at = {} THEN JUndefined
             ELSE C5_Stored(IF v.t = "array" THEN v.v[SetMin(at)]
                            ELSE JStr(<<v.v[SetMin(at)]>>), Tail(names))
    ELSE JUndefined

JTrue == [t |-> "boolean", v |-> TRUE]

\* value || "" for a field that holds null or a string, or is absent.
OrEmpty(r, f) == IF f \in DOMAIN r /\ r[f].t = "string" THEN r[f].v ELSE <<>>

\* value || "" for a field that holds a string when present.
TextOf(r, f) == IF f \in DOMAIN r THEN r[f] ELSE <<>>

\* The logs of a forEach, given those of each element: all of them, in order.
RECURSIVE ForEach(_)
ForEach(logs) == IF logs = <<>> THEN <<>> ELSE Head(logs) \o ForEach(Tail(logs))

\* section?.payload: the array, or <<>> for undefined.
Payload(d, type, field) ==
    LET s == getSection(d, type)
    IN  IF s # 0 /\ field \in DOMAIN d.sections[s] THEN d.sections[s][field] ELSE <<>>

HasPayload(d, type, field) ==
    getSection(d, type) # 0 /\ field \in DOMAIN d.sections[getSection(d, type)]

contactCommand(d) ==
    << <<"N","a","m","e",":"," ">> \o d.name,
       <<"E","m","a","i","l",":"," ">> \o OrEmpty(d.contact, "email"),
       <<"P","h","o","n","e",":"," ">> \o OrEmpty(d.contact, "phone"),
       <<"L","o","c","a","t","i","o","n",":"," ">> \o TextOf(d, "location"),
       <<"L","i","n","k","e","d","I","n",":"," ">> \o OrEmpty(d.contact, "linkedin") >>

skillsCommand(d) ==
    ForEach([i \in 1..Len(Payload(d, <<"s","k","i","l","l">>, "categories")) |->
              LET cat == Payload(d, <<"s","k","i","l","l">>, "categories")[i]
              IN  << cat.name \o <<":"," ">> \o Join(cat.skills, <<","," ">>) >>])

GpaOrScore(item) ==
    IF TextOf(item, "gpa") # <<>> THEN item.gpa ELSE TextOf(item, "score")

educationCommand(d) ==
    ForEach([i \in 1..Len(Payload(d, <<"e","d","u","c","a","t","i","o","n">>, "items")) |->
              LET item == Payload(d, <<"e","d","u","c","a","t","i","o","n">>, "items")[i] IN 
              << item.institution
                   \o (IF TextOf(item, "location") # <<>>
                       THEN <<" ","|"," ">> \o item.location ELSE <<>>),
                 item.degree
                   \o (IF GpaOrScore(item) # <<>>
                       THEN <<" ", Bullet, " ">> \o GpaOrScore(item) ELSE <<>>),
                 <<"P","e","r","i","o","d",":"," ">>
                   \o (IF TextOf(item, "period") # <<>> THEN item.period ELSE <<"N","/","A">>)
                   \o <<"\n">> >>])

achievementsCommand(d) ==
    ForEach([i \in 1..Len(Payload(d, <<"a","c","h","i","e","v","e","m","e","n","t">>, "achievements")) |->
              LET ach == Payload(d, <<"a","c","h","i","e","v","e","m","e","n","t">>, "achievements")[i] IN 
              << NumberToString(i) \o <<"."," ">> \o ach.name
                   \o (IF TextOf(ach, "date") # <<>>
                       THEN <<" ","(">> \o ach.date \o <<")">> ELSE <<>>) >>])

\* query && query !== true && typeof query === "string"
IsQuery(query) == query.t = "string" /\ query.v # <<>>

\* A variant of the predicate that looks at the name alone.
NameMatches(p, i, query) == Includes(ToLowerCase(p.name), ToLowerCase(query.v))

\* The predicate of section.projects.find: the name holds the query, case
\* ignored, or the query is the number of the project.
ProjectMatches(p, i, query) ==
    \/ Includes(ToLowerCase(p.name), ToLowerCase(query.v))
    \/ NumberToString(i) = query.v

\* Array.prototype.find: the index of the first project that matches, 0 for
\* undefined.
FindProject(projects, query) ==
    LET hits == {i \in 1..Len(projects) : ProjectMatches(projects[i], i, query)}
    IN  IF hits = {} THEN 0 ELSE SetMin(hits)

NotFound(projects, query) ==
    << <<"P","r","o","j","e","c","t"," ","\"">> \o query.v \o <<"\""," ","n","o","t"," ","f","o","u","n","d",".","\n","A","v","a","i","l","a","b","l","e"," ","p","r","o","j","e","c","t","s",":">> >>
    \o ForEach([i \in 1..Len(projects) |->
              LET p == projects[i] IN  << NumberToString(i) \o <<"."," ">> \o p.name >>])

ProjectDetails(project) ==
    << project.name \o <<" ","-"," ">> \o project.subtitle,
       <<"S","t","a","c","k",":"," ">> \o Join(project.stack, <<","," ">>) \o <<"\n">>,
       <<"H","i","g","h","l","i","g","h","t","s",":">> >>
    \o ForEach([i \in 1..Len(project.highlights) |->
              LET h == project.highlights[i] IN  << <<Bullet, " ">> \o h >>])

projectsCommand(d, query) ==
    LET projects == Payload(d, <<"p","r","o","j","e","c","t">>, "projects")
    IN  IF ~HasPayload(d, <<"p","r","o","j","e","c","t">>, "projects") THEN <<>>
        ELSE IF IsQuery(query)
        THEN IF FindProject(projects, query) # 0
             THEN ProjectDetails(projects[FindProject(projects, query)])
             ELSE NotFound(projects, query)
        ELSE ForEach([i \in 1..Len(projects) |->
              LET proj == projects[i] IN 
                       << NumberToString(i) \o <<"."," ">> \o proj.name \o <<" ","-"," ">> \o proj.subtitle,
                          <<" "," "," ","S","t","a","c","k",":"," ">> \o Join(proj.stack, <<","," ">>) \o <<"\n">> >>])

\* The link lines of a project, each after the given indent.
LinkLines(project, indent, none) ==
    LET github == IF "links" \in DOMAIN project THEN OrEmpty(project.links, "github") ELSE <<>>
        demo == IF "links" \in DOMAIN project THEN OrEmpty(project.links, "demo") ELSE <<>>
    IN  (IF github # <<>> THEN << indent \o <<"G","i","t","H","u","b",":"," ">> \o github >> ELSE <<>>)
        \o (IF demo # <<>> THEN << indent \o <<"D","e","m","o",":"," ">> \o demo >> ELSE <<>>)
        \o (IF github = <<>> /\ demo = <<>> THEN << indent \o none >> ELSE <<>>)

linksCommand(d, query) ==
    LET projects == Payload(d, <<"p","r","o","j","e","c","t">>, "projects")
    IN  IF ~HasPayload(d, <<"p","r","o","j","e","c","t">>, "projects") THEN <<>>
        ELSE IF IsQuery(query)
        THEN IF FindProject(projects, query) # 0
             THEN LET project == projects[FindProject(projects, query)]
                  IN  << project.name \o <<" ","L","i","n","k","s",":">> >>
                      \o LinkLines(project, <<>>, <<"N","o"," ","l","i","n","k","s"," ","a","v","a","i","l","a","b","l","e"," ","f","o","r"," ","t","h","i","s"," ","p","r","o","j","e","c","t">>)
             ELSE NotFound(projects, query)
        ELSE ForEach([i \in 1..Len(projects) |->
              LET proj == projects[i] IN 
                       << NumberToString(i) \o <<"."," ">> \o proj.name \o <<":">> >>
                       \o LinkLines(proj, <<" "," "," ">>, <<"N","o"," ","l","i","n","k","s"," ","a","v","a","i","l","a","b","l","e">>)
                       \o << <<>> >>])

portfolioCommand(d) ==
    IF OrEmpty(d.contact, "portfolio") # <<>>
    THEN << d.contact.portfolio.v >>
    ELSE << <<"P","o","r","t","f","o","l","i","o"," ","l","i","n","k"," ","n","o","t"," ","f","o","u","n","d">> >>

githubCommand(d) ==
    IF OrEmpty(d.contact, "github") # <<>>
    THEN << d.contact.github.v >>
    ELSE << <<"G","i","t","H","u","b"," ","p","r","o","f","i","l","e"," ","n","o","t"," ","f","o","u","n","d">> >>

NameKey == <<"n","a","m","e">>
EmailKey == <<"e","m","a","i","l">>
PhoneKey == <<"p","h","o","n","e">>
LocationKey == <<"l","o","c","a","t","i","o","n">>
ContactKey == <<"c","o","n","t","a","c","t">>
SkillsKey == <<"s","k","i","l","l","s">>
EducationKey == <<"e","d","u","c","a","t","i","o","n">>
AchievementsKey == <<"a","c","h","i","e","v","e","m","e","n","t","s">>
ProjectsKey == <<"p","r","o","j","e","c","t","s">>
PortfolioKey == <<"p","o","r","t","f","o","l","i","o">>
GithubKey == <<"g","i","t","h","u","b">>
DownloadKey == <<"d","o","w","n","l","o","a","d">>
SaveKey == <<"s","a","v","e">>
LinksKey == <<"l","i","n","k","s">>

\* The keys of simpleCommands in the order of Object.entries.
simpleCommands ==
    << NameKey, EmailKey, PhoneKey, LocationKey, ContactKey, SkillsKey,
       EducationKey, AchievementsKey, ProjectsKey, PortfolioKey, GithubKey,
       DownloadKey, SaveKey, LinksKey >>

\* What the handler of a command other than save logs.
HandlerLogs(cmd, d, value) ==
    CASE cmd = NameKey -> << d.name >>
      [] cmd = EmailKey -> << OrEmpty(d.contact, "email") >>
      [] cmd = PhoneKey -> << OrEmpty(d.contact, "phone") >>
      [] cmd = LocationKey -> << TextOf(d, "location") >>
      [] cmd = ContactKey -> contactCommand(d)
      [] cmd = SkillsKey -> skillsCommand(d)
      [] cmd = EducationKey -> educationCommand(d)
      [] cmd = AchievementsKey -> achievementsCommand(d)
      [] cmd = ProjectsKey -> projectsCommand(d, value)
      [] cmd = PortfolioKey -> portfolioCommand(d)
      [] cmd = GithubKey -> githubCommand(d)
      [] cmd = DownloadKey -> << <<"h","t","t","p","s",":","/","/","i","a","m","r","a","k","e","s","h",".","c","o","d","e","s","/","r","e","s","u","m","e">> >>
      [] cmd = LinksKey -> linksCommand(d, value)

RunHandler ==
    /\ pc = "handler"
    /\ command # SaveKey
    /\ stdout' = stdout \o HandlerLogs(command, data, arg)
    /\ ran' = Append(ran, command)
    /\ pc' = "exit"
    /\ UNCHANGED <<renderVars, parseVars, data, loadVars, textVars, pathVars, command, arg, stderr,
                   argv, commander, cliArgs, flags, written>>

(***************************************************************************)
(* SpecProjects: the projects and the links handler applied to records of  *)
(* up to MaxProjects projects and to every kind of query.                  *)
(***************************************************************************)
ProjectPool ==
    { Project(<<"T","i","m","e","l","i","n","e">>, RepoLink),
      Project(<<"A","t","l","a","s"," ","2">>, NoLinks),
      Project(<<"T","o","p"," ","1","0">>, [github |-> JNull, demo |-> JStr(<<"t","o","p",".","i","o">>)]),
      Project(<<"3","D"," ","M","a","z","e">>, NoLinks) }

Queries ==
    { JTrue, JStr(<<>>), JStr(<<"1">>), JStr(<<"2">>), JStr(<<"3">>), JStr(<<"4">>),
      JStr(<<"a","t","l","a","s">>), JStr(<<"z","z","z">>) }

ProjectsInit ==
    /\ pc = "handler"
    /\ command \in {ProjectsKey, LinksKey}
    /\ arg \in Queries
    /\ \/ data \in {Resume(<<"A","n","n"," ","L","e","e">>, ps) : ps \in SeqsUpTo(ProjectPool, MaxProjects)}
       \/ data = parseTextToJson(EmbeddedText)
    /\ stdout = <<>>
    /\ stderr = <<>>
    /\ CliIdle
    /\ RenderIdle
    /\ ParseIdle
    /\ LoadIdle
    /\ TextIdle
    /\ PathIdle

ProjectsNext == RunHandler

SpecProjects == ProjectsInit /\ [][ProjectsNext]_vars

\* What the two handlers log for one selected project.
C6_Selected(project) ==
    IF command = ProjectsKey
    THEN ProjectDetails(project)
    ELSE << project.name \o <<" ","L","i","n","k","s",":">> >>
         \o LinkLines(project, <<>>, <<"N","o"," ","l","i","n","k","s"," ","a","v","a","i","l","a","b","l","e"," ","f","o","r"," ","t","h","i","s"," ","p","r","o","j","e","c","t">>)

C6_Projects == IF HasPayload(data, <<"p","r","o","j","e","c","t">>, "projects")
               THEN Payload(data, <<"p","r","o","j","e","c","t">>, "projects") ELSE <<>>

\* C6: with the query "1" the projects handler prints the first project of
\* the section, whatever the names of the projects are.
C6_FirstProject ==
    (pc = "exit" /\ command = ProjectsKey /\ arg = JStr(<<"1">>) /\ C6_Projects # <<>>)
        => stdout = ProjectDetails(C6_Projects[1])

\* The first project's name holds no "1", the second one's does.
C6_Witness ==
    /\ pc = "exit"
    /\ command = ProjectsKey
    /\ arg = JStr(<<"1">>)
    /\ Len(C6_Projects) >= 2
    /\ ~Includes(C6_Projects[1].name, <<"1">>)
    /\ Includes(C6_Projects[2].name, <<"1">>)
    /\ stdout = ProjectDetails(C6_Projects[1])

\* C7: for every N from 1 to the number of projects, the query N makes the
\* projects and the links handler select the N-th project of the section,
\* whatever the names of the projects are.
C7_NthProject ==
    \A n \in 1..Len(C6_Projects) :
        (pc = "exit" /\ arg = JStr(NumberToString(n)))
            => stdout = C6_Selected(C6_Projects[n])

(***************************************************************************)
(* utils/config: parseFlags.  The flags object is a function from the keys *)
(* it holds to their values, true being JTrue and a string s JStr(s).      *)
(***************************************************************************)
StartsWith(s, prefix) ==
    Len(s) >= Len(prefix) /\ SubSeq(s, 1, Len(prefix)) = prefix

\* arg.split('='), destructured as [key, value], of an arg that holds a "=":
\* what stands before the first "=" and what stands between it and the next.
SplitEquals(a) ==
    LET eqs == {i \in 1..Len(a) : a[i] = "="}
        first == SetMin(eqs)
        later == {i \in eqs : i > first}
        next == IF later = {} THEN Len(a) + 1 ELSE SetMin(later)
    IN  [key |-> SubSeq(a, 1, first - 1), value |-> SubSeq(a, first + 1, next - 1)]

\* key.replace('--', ''): the first "--" of the key is dropped.
DropFirstDashes(key) ==
    LET hits == {i \in 1..(Len(key) - 1) : key[i] = "-" /\ key[i + 1] = "-"}
    IN  IF hits = {} THEN key
        ELSE SubSeq(key, 1, SetMin(hits) - 1) \o SubSeq(key, SetMin(hits) + 2, Len(key))

\* arg.replace(/^-+/, '')
DropLeadingDashes(a) == SubSeq(a, 1 + RunLen(a, 1, {"-"}), Len(a))

\* .replace(/-([a-z])/g, (_, c) => c.toUpperCase()), read from position i on.
RECURSIVE CamelFrom(_, _)
CamelFrom(s, i) ==
    IF i > Len(s) THEN <<>>
    ELSE IF s[i] = "-" /\ i < Len(s) /\ s[i + 1] \in LowerChars
    THEN <<UpperChar(s[i + 1])>> \o CamelFrom(s, i + 2)
    ELSE <<s[i]>> \o CamelFrom(s, i + 1)

CamelCase(s) == CamelFrom(s, 1)

\* flags[key] = value
SetFlag(fl, key, value) ==
    [k \in DOMAIN fl \cup {key} |-> IF k = key THEN value ELSE fl[k]]

\* A variant of the loop that takes the next argument as the value of a flag
\* also when it starts with "-".
RECURSIVE FlagLoopGreedy(_, _, _)
FlagLoopGreedy(args, i, fl) ==
    IF i > Len(args) THEN fl
    ELSE IF "=" \in Range(args[i])
    THEN FlagLoopGreedy(args, i + 1,
                        SetFlag(fl, CamelCase(DropFirstDashes(SplitEquals(args[i]).key)),
                                JStr(SplitEquals(args[i]).value)))
    ELSE IF StartsWith(args[i], <<"-">>)
    THEN IF i < Len(args) /\ args[i + 1] # <<>>
         THEN FlagLoopGreedy(args, i + 2,
                             SetFlag(fl, CamelCase(DropLeadingDashes(args[i])), JStr(args[i + 1])))
         ELSE FlagLoopGreedy(args, i + 1,
                             SetFlag(fl, CamelCase(DropLeadingDashes(args[i])), JTrue))
    ELSE FlagLoopGreedy(args, i + 1, fl)

\* The for loop of parseFlags over argv[i..], i counted from 1.
RECURSIVE FlagLoop(_, _, _)
FlagLoop(args, i, fl) ==
    IF i > Len(args) THEN fl
    ELSE IF "=" \in Range(args[i])
    THEN FlagLoop(args, i + 1,
                  SetFlag(fl, CamelCase(DropFirstDashes(SplitEquals(args[i]).key)),
                          JStr(SplitEquals(args[i]).value)))
    ELSE IF StartsWith(args[i], <<"-">>)
    THEN IF i < Len(args) /\ args[i + 1] # <<>> /\ ~StartsWith(args[i + 1], <<"-">>)
         THEN FlagLoop(args, i + 2,
                       SetFlag(fl, CamelCase(DropLeadingDashes(args[i])), JStr(args[i + 1])))
         ELSE FlagLoop(args, i + 1,
                       SetFlag(fl, CamelCase(DropLeadingDashes(args[i])), JTrue))
    ELSE FlagLoop(args, i + 1, fl)

parseFlags(args) == FlagLoop(args, 1, <<>>)

\* flags[key], undefined when the key is not held.
Flag(fl, key) == IF key \in DOMAIN fl THEN fl[key] ELSE JUndefined

\* The truthiness of a flag value.
Truthy(v) == v = JTrue \/ (v.t = "string" /\ v.v # <<>>)

(***************************************************************************)
(* bin/resume: setupCLI.  With commander, program.parse reads the options  *)
(* declared on the program and program.opts() returns their values, which  *)
(* setupCLI writes back as "--key" and "--key=value" arguments.  The       *)
(* option values are a sequence of <<key, value>> pairs in the order of    *)
(* Object.entries.                                                         *)
(***************************************************************************)
BoolOption(short, long) == [short |-> short, long |-> long, kind |-> "boolean"]
ValueOption(short, long) == [short |-> short, long |-> long, kind |-> "optional"]

\* The options of the program; the key of an option is its long name in
\* camel case.  --no-color is the negation of color, --width-perc requires a
\* value.
Options ==
    << BoolOption(<<"-","n">>, <<"-","-","n","a","m","e">>),
       BoolOption(<<"-","e">>, <<"-","-","e","m","a","i","l">>),
       BoolOption(<<"-","p">>, <<"-","-","p","h","o","n","e">>),
       BoolOption(<<"-","l">>, <<"-","-","l","o","c","a","t","i","o","n">>),
       BoolOption(<<"-","s">>, <<"-","-","s","k","i","l","l","s">>),
       ValueOption(<<"-","j">>, <<"-","-","p","r","o","j","e","c","t","s">>),
       BoolOption(<<"-","a">>, <<"-","-","a","c","h","i","e","v","e","m","e","n","t","s">>),
       BoolOption(<<>>, <<"-","-","c","o","n","t","a","c","t">>),
       BoolOption(<<>>, <<"-","-","e","d","u","c","a","t","i","o","n">>),
       BoolOption(<<>>, <<"-","-","p","o","r","t","f","o","l","i","o">>),
       BoolOption(<<>>, <<"-","-","g","i","t","h","u","b">>),
       BoolOption(<<>>, <<"-","-","d","o","w","n","l","o","a","d">>),
       ValueOption(<<>>, <<"-","-","s","a","v","e">>),
       ValueOption(<<>>, <<"-","-","l","i","n","k","s">>),
       BoolOption(<<>>, <<"-","-","j","s","o","n">>),
       BoolOption(<<>>, <<"-","-","j","s","o","n","-","r","e","s","u","m","e">>),
       BoolOption(<<>>, <<"-","-","a","s","c","i","i">>),
       BoolOption(<<>>, <<"-","-","u","n","i","c","o","d","e">>),
       [short |-> <<>>, long |-> <<"-","-","n","o","-","c","o","l","o","r">>, kind |-> "negate"],
       BoolOption(<<>>, <<"-","-","p","l","a","i","n">>),
       [short |-> <<>>, long |-> <<"-","-","w","i","d","t","h","-","p","e","r","c">>, kind |-> "required"] >>

\* The option an argument names by its short or its long flag, 0 for none.
FindOption(a) ==
    LET hits == {i \in 1..Len(Options) :
                    a # <<>> /\ (Options[i].short = a \/ Options[i].long = a)}
    IN  IF hits = {} THEN 0 ELSE SetMin(hits)

\* The key of an option in program.opts().
OptionKey(o) ==
    IF o.kind = "negate"
    THEN CamelCase(SubSeq(o.long, 6, Len(o.long)))
    ELSE CamelCase(DropLeadingDashes(o.long))

\* opts[key] = value: a new key comes last, a held key keeps its place.
SetOption(opts, key, value) ==
    IF \E i \in 1..Len(opts) : opts[i][1] = key
    THEN [i \in 1..Len(opts) |-> IF opts[i][1] = key THEN <<key, value>> ELSE opts[i]]
    ELSE Append(opts, <<key, value>>)

\* The value an option takes when it is given with no value.
JFalse == [t |-> "boolean", v |-> FALSE]
Preset(o) == IF o.kind = "negate" THEN JFalse ELSE JTrue

\* An argument that reads as an option: a "-" and at least one more character.
MaybeOption(a) == Len(a) > 1 /\ a[1] = "-"

\* What program.parse gives when a required value is missing: commander
\* prints the error and ends the process.
OptionError == << <<<<"e","r","r","o","r">>, JStr(<<"o","p","t","i","o","n"," ","a","r","g","u","m","e","n","t"," ","m","i","s","s","i","n","g">>)>> >>

\* program.parse over args[i..].  A declared option is given its value: an
\* optional value is the next argument unless that reads as an option, a
\* required value is the next argument.  A short boolean option may carry
\* more short options ("-ne"), a short value option its value ("-j2"), and
\* "--long=value" gives a value option its value.  Every other argument is
\* an operand or an unknown option and is left alone (allowUnknownOption);
\* "--" ends the options.  The arguments hold neither --help nor --version,
\* on which commander prints and ends the process.
RECURSIVE OptionLoop(_, _, _)
OptionLoop(args, i, opts) ==
    IF i > Len(args) \/ args[i] = <<"-","-">> THEN opts
    ELSE LET a == args[i]
             o == IF MaybeOption(a) THEN FindOption(a) ELSE 0
             so == IF Len(a) > 2 /\ a[1] = "-" /\ a[2] # "-"
                   THEN FindOption(<<"-", a[2]>>) ELSE 0
             eq == IF "=" \in Range(a) THEN SetMin({k \in 1..Len(a) : a[k] = "="}) ELSE 0
             lo == IF StartsWith(a, <<"-","-">>) /\ eq > 3
                   THEN FindOption(SubSeq(a, 1, eq - 1)) ELSE 0
         IN  IF o # 0 /\ Options[o].kind = "required"
             THEN IF i < Len(args)
                  THEN OptionLoop(args, i + 2,
                                  SetOption(opts, OptionKey(Options[o]), JStr(args[i + 1])))
                  ELSE OptionError
             ELSE IF o # 0 /\ Options[o].kind = "optional"
                           /\ i < Len(args) /\ ~MaybeOption(args[i + 1])
             THEN OptionLoop(args, i + 2,
                             SetOption(opts, OptionKey(Options[o]), JStr(args[i + 1])))
             ELSE IF o # 0
             THEN OptionLoop(args, i + 1,
                             SetOption(opts, OptionKey(Options[o]), Preset(Options[o])))
             ELSE IF so # 0 /\ Options[so].kind \in {"optional", "required"}
             THEN OptionLoop(args, i + 1,
                             SetOption(opts, OptionKey(Options[so]),
                                       JStr(SubSeq(a, 3, Len(a)))))
             ELSE IF so # 0
             THEN OptionLoop([args EXCEPT ![i] = <<"-">> \o SubSeq(a, 3, Len(a))], i,
                             SetOption(opts, OptionKey(Options[so]), Preset(Options[so])))
             ELSE IF lo # 0 /\ Options[lo].kind \in {"optional", "required"}
             THEN OptionLoop(args, i + 1,
                             SetOption(opts, OptionKey(Options[lo]),
                                       JStr(SubSeq(a, eq + 1, Len(a)))))
             ELSE OptionLoop(args, i + 1, opts)

\* program.opts() after program.parse(process.argv): color, the negation of
\* --no-color, is true unless the option is given.
ProgramOpts(args) == OptionLoop(args, 1, << <<<<"c","o","l","o","r">>, JTrue>> >>)

\* key.replace(/([A-Z])/g, "-$1").toLowerCase()
RECURSIVE KebabCase(_)
KebabCase(key) ==
    IF key = <<>> THEN <<>>
    ELSE (IF Head(key) \in UpperChars THEN <<"-", LowerChar(Head(key))>> ELSE <<Head(key)>>)
         \o KebabCase(Tail(key))

\* Object.entries(opts).forEach: a true value gives "--key", a non-empty
\* string "--key=value", every other value nothing.
RECURSIVE OptsToFlags(_)
OptsToFlags(opts) ==
    IF opts = <<>> THEN <<>>
    ELSE (IF Head(opts)[2] = JTrue
          THEN << <<"-","-">> \o KebabCase(Head(opts)[1]) >>
          ELSE IF Truthy(Head(opts)[2])
          THEN << <<"-","-">> \o KebabCase(Head(opts)[1]) \o <<"=">> \o Head(opts)[2].v >>
          ELSE <<>>)
         \o OptsToFlags(Tail(opts))

setupCLI(args, withCommander) ==
    IF ~withCommander THEN args ELSE OptsToFlags(ProgramOpts(args))

(***************************************************************************)
(* bin/resume: formatResume.  A colors object is a record of the names of  *)
(* its functions.                                                          *)
(***************************************************************************)
ApplyColor(fn, s) == IF fn = "toUpperCase" THEN ToUpperCase(s) ELSE s

\* The plain colors of the save handler.
SaveColors == [bold |-> "toUpperCase", blueBright |-> "identity", gray |-> "identity"]

Heading(colors, s) == ApplyColor(colors.bold, ApplyColor(colors.blueBright, s))

ItemLines(item) ==
    IF TextOf(item, "institution") = <<>> THEN <<>>
    ELSE << item.institution
              \o (IF TextOf(item, "location") # <<>>
                  THEN <<" ","|"," ">> \o item.location ELSE <<>>)
              \o (IF TextOf(item, "period") # <<>>
                  THEN <<" ","(">> \o item.period \o <<")">> ELSE <<>>) >>
         \o (IF TextOf(item, "degree") # <<>>
             THEN << <<"-"," ">> \o item.degree
                       \o (IF GpaOrScore(item) # <<>>
                           THEN <<" ", Bullet, " ">> \o GpaOrScore(item) ELSE <<>>) >>
             ELSE <<>>)

ProjectLines(proj) ==
    << proj.name
         \o (IF TextOf(proj, "subtitle") # <<>>
             THEN <<" ", EnDash, " ">> \o proj.subtitle ELSE <<>>)
         \o (IF "stack" \in DOMAIN proj
             THEN <<" ","|"," ">> \o Join(proj.stack, <<","," ">>) ELSE <<>>) >>
    \o (IF "highlights" \in DOMAIN proj
        THEN [i \in 1..Len(proj.highlights) |-> <<"-"," ">> \o proj.highlights[i]]
        ELSE <<>>)

\* The lines of one section: its title, the lines of its payload, "".
SectionLines(section, colors) ==
    << Heading(colors, section.title) >>
    \o (IF "items" \in DOMAIN section
        THEN ForEach([i \in 1..Len(section.items) |-> ItemLines(section.items[i])])
        ELSE IF "categories" \in DOMAIN section
        THEN [i \in 1..Len(section.categories) |->
                section.categories[i].name \o <<":"," ">>
                  \o Join(section.categories[i].skills, <<","," ">>)]
        ELSE IF "projects" \in DOMAIN section
        THEN ForEach([i \in 1..Len(section.projects) |-> ProjectLines(section.projects[i])])
        ELSE IF "achievements" \in DOMAIN section
        THEN [i \in 1..Len(section.achievements) |->
                <<"-"," ">> \o section.achievements[i].name
                  \o (IF TextOf(section.achievements[i], "date") # <<>>
                      THEN <<" ","(">> \o section.achievements[i].date \o <<")">>
                      ELSE <<>>)]
        ELSE <<>>)
    \o << <<>> >>

formatResume(d, colors) ==
    Join(<< ApplyColor(colors.bold, ToUpperCase(d.name)), <<>>,
            Heading(colors, <<"C","o","n","t","a","c","t">>) >>
         \o (IF TextOf(d, "location") # <<>>
             THEN << <<"L","o","c","a","t","i","o","n",":"," ">> \o d.location >> ELSE <<>>)
         \o (IF OrEmpty(d.contact, "email") # <<>>
             THEN << <<"E","m","a","i","l",":"," ">> \o d.contact.email.v >> ELSE <<>>)
         \o (IF OrEmpty(d.contact, "phone") # <<>>
             THEN << <<"P","h","o","n","e",":"," ">> \o d.contact.phone.v >> ELSE <<>>)
         \o (IF OrEmpty(d.contact, "linkedin") # <<>>
             THEN << <<"L","i","n","k","e","d","I","n",":"," ">> \o d.contact.linkedin.v >> ELSE <<>>)
         \o << <<>> >>
         \o ForEach([i \in 1..Len(d.sections) |-> SectionLines(d.sections[i], colors)]),
         <<"\n">>)

(***************************************************************************)
(* bin/resume: the save handler.                                           *)
(***************************************************************************)
DefaultFile == <<"r","a","k","e","s","h","-","r","e","s","u","m","e",".","t","x","t">>

OutputFileDefault(filename) == DefaultFile

\* filename && filename !== true ? filename : "rakesh-resume.txt"
OutputFile(filename) ==
    IF filename.t = "string" /\ filename.v # <<>> THEN filename.v ELSE DefaultFile

\* path.resolve of a file name: an absolute name as it is, another one under
\* the working directory.
Cwd == <<"/","h","o","m","e","/","a","n","n">>
Resolve(file) == IF StartsWith(file, <<"/">>) THEN file ELSE Cwd \o <<"/">> \o file

\* error.message of a write that fails.
WriteError(file) == <<"E","A","C","C","E","S",":"," ","p","e","r","m","i","s","s","i","o","n"," ","d","e","n","i","e","d",","," ","o","p","e","n"," ","'">> \o file \o <<"'">>

SavedMessage(file) == <<"U+2705">> \o <<" ","R","e","s","u","m","e"," ","s","a","v","e","d"," ","t","o",":"," ">> \o Resolve(file)
ErrorMessage(file) == <<"U+274C">> \o <<" ","E","r","r","o","r"," ","s","a","v","i","n","g"," ","f","i","l","e",":"," ">> \o WriteError(file)

\* fs.writeFileSync returns: the file holds the formatted resume.
Save ==
    /\ pc = "handler"
    /\ command = SaveKey
    /\ written' = [ status |-> "ok",
                    file |-> OutputFile(arg),
                    content |-> formatResume(data, SaveColors) ]
    /\ stdout' = Append(stdout, SavedMessage(OutputFile(arg)))
    /\ ran' = Append(ran, command)
    /\ pc' = "exit"
    /\ UNCHANGED <<renderVars, parseVars, data, loadVars, textVars, pathVars, command, arg, stderr,
                   argv, commander, cliArgs, flags>>

\* fs.writeFileSync throws.
SaveThrows ==
    /\ pc = "handler"
    /\ command = SaveKey
    /\ written' = [status |-> "failed", file |-> OutputFile(arg)]
    /\ ran' = Append(ran, command)
    /\ pc' = "saveCatch"
    /\ UNCHANGED <<renderVars, parseVars, data, loadVars, textVars, pathVars, runVars,
                   argv, commander, cliArgs, flags>>

\* catch (error): the message is printed and the handler returns.
SaveCatch ==
    /\ pc = "saveCatch"
    /\ stderr' = Append(stderr, ErrorMessage(written.file))
    /\ pc' = "exit"
    /\ UNCHANGED <<renderVars, parseVars, data, loadVars, textVars, pathVars, command, arg, stdout,
                   cliVars>>

(***************************************************************************)
(* bin/resume: main.  setupCLI, parseFlags and loadResumeData run in       *)
(* turn; then the first simple command whose flag is set is handled, or    *)
(* the record is exported, or the resume is displayed.                     *)
(***************************************************************************)
SetupCLI ==
    /\ pc = "setupCLI"
    /\ IF commander /\ ProgramOpts(argv) = OptionError
       THEN /\ stderr' = Append(stderr, OptionError[1][2].v)
            /\ pc' = "processExit"
            /\ UNCHANGED cliArgs
       ELSE /\ cliArgs' = setupCLI(argv, commander)
            /\ pc' = "parseFlags"
            /\ UNCHANGED stderr
    /\ UNCHANGED <<renderVars, parseVars, data, loadVars, textVars, pathVars, command, arg, stdout,
                   argv, commander, flags, ran, written>>

ParseFlags ==
    /\ pc = "parseFlags"
    /\ flags' = parseFlags(cliArgs)
    /\ pc' = "load"
    /\ UNCHANGED <<renderVars, parseVars, data, loadVars, textVars, pathVars, runVars,
                   argv, commander, cliArgs, ran, written>>

\* A variant of the loop that goes on to the last command whose flag is set.
LastCommand(fl) ==
    LET hits == {i \in 1..Len(simpleCommands) : Flag(fl, simpleCommands[i]) # JUndefined}
    IN  IF hits = {} THEN 0 ELSE SetMax(hits)

\* for (const [command, handler] of Object.entries(simpleCommands)) from the
\* i-th entry on: the first entry whose flag is not undefined, 0 for none.
RECURSIVE CommandLoop(_, _)
CommandLoop(fl, i) ==
    IF i > Len(simpleCommands) THEN 0
    ELSE IF Flag(fl, simpleCommands[i]) # JUndefined THEN i
    ELSE CommandLoop(fl, i + 1)

FirstCommand(fl) == CommandLoop(fl, 1)

\* The loop over the simple commands: the handler of the first command whose
\* flag is set is called with the value of the flag, and main returns after
\* it; with no such command main goes on to the exports.
Dispatch ==
    /\ pc = "return"
    /\ IF FirstCommand(flags) # 0
       THEN /\ command' = simpleCommands[FirstCommand(flags)]
            /\ arg' = flags[simpleCommands[FirstCommand(flags)]]
            /\ pc' = "handler"
       ELSE /\ pc' = "export"
            /\ UNCHANGED <<command, arg>>
    /\ UNCHANGED <<renderVars, parseVars, data, loadVars, textVars, pathVars, stdout, stderr, cliVars>>

JsonKey == <<"j","s","o","n">>
JsonResumeKey == <<"j","s","o","n","R","e","s","u","m","e">>
PlainKey == <<"p","l","a","i","n">>
DisplayKey == <<"d","i","s","p","l","a","y">>

\* The path of an export: flags[printKey] when that is truthy, else
\* flags[pathKey] when that is truthy, else none.
ExportPath(fl, printKey, pathKey) ==
    IF Truthy(Flag(fl, printKey)) THEN Flag(fl, printKey)
    ELSE IF Truthy(Flag(fl, pathKey)) THEN Flag(fl, pathKey)
    ELSE JUndefined

\* What an export writes: the value at a path of a document, through
\* printValue or through JSON.stringify.  The text is kept as the value it
\* is the text of.
Exported(document, fl, printKey, pathKey) ==
    [ document |-> document,
      path |-> ExportPath(fl, printKey, pathKey),
      through |-> IF Truthy(Flag(fl, printKey)) THEN "printValue" ELSE "JSON.stringify" ]

\* if (flags.json): one value is written.  getByPath calls pathExpr.replace,
\* which a path that is true does not have: the TypeError leaves main.
ExportJson ==
    /\ pc = "export"
    /\ Truthy(Flag(flags, JsonKey))
    /\ ran' = Append(ran, JsonKey)
    /\ IF ExportPath(flags, <<"p","r","i","n","t">>, <<"j","s","o","n","P","a","t","h">>) = JTrue
       THEN pc' = "raised" /\ UNCHANGED stdout
       ELSE /\ stdout' = Append(stdout, Exported("data", flags, <<"p","r","i","n","t">>, <<"j","s","o","n","P","a","t","h">>))
            /\ pc' = "exit"
    /\ UNCHANGED <<renderVars, parseVars, data, loadVars, textVars, pathVars, command, arg, stderr,
                   argv, commander, cliArgs, flags, written>>

\* if (flags.jsonResume), reached when flags.json is not truthy.
ExportJsonResume ==
    /\ pc = "export"
    /\ ~Truthy(Flag(flags, JsonKey))
    /\ Truthy(Flag(flags, JsonResumeKey))
    /\ ran' = Append(ran, JsonResumeKey)
    /\ IF ExportPath(flags, <<"p","r","i","n","t","R","e","s","u","m","e">>, <<"j","s","o","n","R","e","s","u","m","e","P","a","t","h">>) = JTrue
       THEN pc' = "raised" /\ UNCHANGED stdout
       ELSE /\ stdout' = Append(stdout, Exported("toJsonResume(data)", flags,
                                                 <<"p","r","i","n","t","R","e","s","u","m","e">>, <<"j","s","o","n","R","e","s","u","m","e","P","a","t","h">>))
            /\ pc' = "exit"
    /\ UNCHANGED <<renderVars, parseVars, data, loadVars, textVars, pathVars, command, arg, stderr,
                   argv, commander, cliArgs, flags, written>>

\* The regular display: in plain mode the content and the tip are logged, in
\* fancy mode the header, the boxed content and the tip are shown at once.
Display ==
    /\ pc = "export"
    /\ ~Truthy(Flag(flags, JsonKey))
    /\ ~Truthy(Flag(flags, JsonResumeKey))
    /\ ran' = Append(ran, DisplayKey)
    /\ stdout' = stdout \o (IF Truthy(Flag(flags, PlainKey))
                            THEN << [shown |-> <<"content">>], [shown |-> <<"tip">>] >>
                            ELSE << [shown |-> <<"header", "boxedContent", "tip">>] >>)
    /\ pc' = "exit"
    /\ UNCHANGED <<renderVars, parseVars, data, loadVars, textVars, pathVars, command, arg, stderr,
                   argv, commander, cliArgs, flags, written>>

(***************************************************************************)
(* Spec: one invocation of the tool for every argv of up to MaxArgs        *)
(* arguments, with and without commander, and for the files the loader may *)
(* find.                                                                   *)
(***************************************************************************)
ArgPool ==
    { <<"-","-","n","a","m","e">>, <<"-","n">>, <<"-","-","s","a","v","e">>, <<"-","-","s","a","v","e","=","c","v",".","t","x","t">>, <<"-","-","p","r","o","j","e","c","t","s">>, <<"-","-","l","i","n","k","s">>,
      <<"-","-","j","s","o","n">>, <<"-","-","j","s","o","n","-","r","e","s","u","m","e">>, <<"-","-","p","r","i","n","t">>, <<"-","-","p","l","a","i","n">>, <<"-","-","n","o","-","c","o","l","o","r">>,
      <<"-","-","b","o","g","u","s">>, <<"1">> }

MainTxtLines == << <<"A","n","n"," ","L","e","e">>, <<"P","u","n","e",","," ","I","N">>, <<"a","n","n","@","x",".","i","o">>, <<"P","r","o","j","e","c","t","s">>, <<"A","t","l","a","s"," ","2">> >>

\* resume.json and resume.txt: a record in resume.json; a resume.json that
\* does not parse beside a resume.txt; neither file.
MainFiles ==
    { [ json |-> [exists |-> TRUE, valid |-> TRUE,
                  content |-> Resume(<<"A","n","n"," ","L","e","e">>,
                                     << Project(<<"T","i","m","e","l","i","n","e">>, RepoLink),
                                        Project(<<"A","t","l","a","s"," ","2">>, NoLinks) >>)],
        txt |-> NoFile, lines |-> <<>> ],
      [ json |-> [exists |-> TRUE, valid |-> FALSE, content |-> JUndefined],
        txt |-> [exists |-> TRUE, valid |-> TRUE, content |-> Join(MainTxtLines, <<"\n">>)],
        lines |-> MainTxtLines ],
      [ json |-> NoFile, txt |-> NoFile, lines |-> <<>> ] }

Init ==
    /\ pc = "setupCLI"
    /\ argv \in SeqsUpTo(ArgPool, MaxArgs)
    /\ commander \in BOOLEAN
    /\ cliArgs = <<>>
    /\ flags = <<>>
    /\ ran = <<>>
    /\ written = NotWritten
    /\ \E f \in MainFiles :
          /\ jsonFile = f.json
          /\ txtFile = f.txt
          /\ docLines = f.lines
    /\ docEol = <<"\n">>
    /\ text = <<>>
    /\ data = JUndefined
    /\ source = "none"
    /\ TextIdle
    /\ PathIdle
    /\ RunIdle
    /\ RenderIdle

Next ==
    \/ SetupCLI
    \/ ParseFlags
    \/ LoadJson
    \/ LoadJsonThrows
    \/ LoadJsonCatch
    \/ LoadJsonMissing
    \/ LoadTxt
    \/ LoadEmbedded
    \/ ParseTextToJson
    \/ Dispatch
    \/ RunHandler
    \/ Save
    \/ SaveThrows
    \/ SaveCatch
    \/ ExportJson
    \/ ExportJsonResume
    \/ Display

Spec == Init /\ [][Next]_vars

\* The output action main is to enter for a flags object.
C9_Expected(fl) ==
    LET set == {i \in 1..Len(simpleCommands) : simpleCommands[i] \in DOMAIN fl}
    IN  IF set # {} THEN simpleCommands[SetMin(set)]
        ELSE IF Truthy(Flag(fl, JsonKey)) THEN JsonKey
        ELSE IF Truthy(Flag(fl, JsonResumeKey)) THEN JsonResumeKey
        ELSE DisplayKey

\* The rearrangements of a sequence.
C9_Permutations(s) ==
    {[i \in 1..Len(s) |-> s[p[i]]] :
        p \in {q \in [1..Len(s) -> 1..Len(s)] : \A i, j \in 1..Len(s) : q[i] = q[j] => i = j}}

\* C9: an invocation enters exactly one output action.  It is the handler
\* of the first simple command, in the order of the table, whose flag is
\* set, and that command is the same for every order of the arguments in
\* argv; with no such flag it is the JSON export when --json is set, else
\* the JSON Resume export when --json-resume is set, else the display.
C9_OneOutputAction ==
    /\ Len(ran) <= 1
    /\ (pc \in {"handler", "saveCatch"}) => command = C9_Expected(flags)
    /\ (pc \in {"exit", "raised"}) =>
          /\ ran = << C9_Expected(flags) >>
          /\ Head(ran) \in Range(simpleCommands) =>
                \A q \in C9_Permutations(argv) :
                    C9_Expected(parseFlags(setupCLI(q, commander))) = Head(ran)

\* Two simple commands given against the order of the table.
C9_Witness ==
    /\ pc = "exit"
    /\ argv = << <<"-","-","s","a","v","e">>, <<"-","-","n","a","m","e">> >>
    /\ ran = << NameKey >>
    /\ stdout = << data.name >>

\* C10: the save handler writes to the file named by the value of its flag,
\* or to rakesh-resume.txt when the flag has no value.  When the write fails
\* it prints one error message and no success message and returns without
\* raising; when the write succeeds it prints one success message that
\* names the file and no error message.
C10_SaveReports ==
    (command = SaveKey) =>
        /\ pc # "raised"
        /\ written.status = "failed" => pc \in {"saveCatch", "exit"}
        /\ (pc = "exit") =>
              /\ written.status \in {"ok", "failed"}
              /\ written.file = (IF arg.t = "string" /\ arg.v # <<>> THEN arg.v ELSE DefaultFile)
              /\ written.status = "failed" =>
                    /\ Len(stderr) = 1
                    /\ Includes(stderr[1], <<"E","r","r","o","r"," ","s","a","v","i","n","g"," ","f","i","l","e">>)
                    /\ stdout = <<>>
              /\ written.status = "ok" =>
                    /\ Len(stdout) = 1
                    /\ Includes(stdout[1], <<"R","e","s","u","m","e"," ","s","a","v","e","d"," ","t","o",":"," ">>)
                    /\ Includes(stdout[1], written.file)
                    /\ stderr = <<>>

\* A failed write to the file named on the command line.
C10_Witness ==
    /\ pc = "exit"
    /\ command = SaveKey
    /\ arg = JStr(<<"c","v",".","t","x","t">>)
    /\ written = [status |-> "failed", file |-> <<"c","v",".","t","x","t">>]
    /\ Len(stderr) = 1
    /\ stdout = <<>>

(***************************************************************************)
(* utils/render: createBox.                                                *)
(***************************************************************************)
\* content.split(/\r?\n/).map(l => sanitizeLine(l, unicode)), then the loop
\* that keeps a blank line as '' and pushes the lines wrapText returns for
\* every other one.  wrapText is called without its unicode argument.
BoxWrapped(c, u, contentWidth) ==
    LET lines == [i \in 1..Len(SplitLines(c)) |-> sanitizeLine(SplitLines(c)[i], u)]
    IN  ForEach([i \in 1..Len(lines) |->
                    IF Trim(lines[i]) = <<>> THEN << <<>> >>
                    ELSE wrapText(lines[i], contentWidth, FALSE)])

\* The border characters.
BoxBorder(u) ==
    IF u
    THEN [tl |-> "U+250C", tr |-> "U+2510", bl |-> "U+2514", br |-> "U+2518",
          h |-> "U+2500", v |-> "U+2502"]
    ELSE [tl |-> "+", tr |-> "+", bl |-> "+", br |-> "+", h |-> "-", v |-> "|"]

\* A variant of the width without the minimum of 20.
BoxWidthLongest(lines) ==
    IF lines = <<>> THEN 0 ELSE SetMax({Len(lines[i]) : i \in 1..Len(lines)})

\* Math.max(20, Math.max(...wrapped.map(l => l.length))); Math.max() of no
\* number is -Infinity.
BoxWidth(lines) == SetMax({20} \cup {Len(lines[i]) : i \in 1..Len(lines)})

\* c.repeat(n)
Repeat(c, n) == [i \in 1..n |-> c]

\* pad: s + ' '.repeat(Math.max(0, width - s.length))
Pad(s, w) == s \o Spaces(IF w - Len(s) > 0 THEN w - Len(s) ELSE 0)

\* The rows of the box drawn by hand, joined by "\n".
ManualBox(lines, u) ==
    LET chars == BoxBorder(u)
        w == BoxWidth(lines)
        innerPad == <<" ", " ">>
        top == <<chars.tl>> \o Repeat(chars.h, w + 4) \o <<chars.tr>>
        bottom == <<chars.bl>> \o Repeat(chars.h, w + 4) \o <<chars.br>>
        emptyLine == <<chars.v>> \o Spaces(w + 4) \o <<chars.v>>
        bodyLines == [i \in 1..Len(lines) |->
                         <<chars.v>> \o innerPad \o Pad(lines[i], w) \o innerPad \o <<chars.v>>]
    IN  Join(<<top, emptyLine>> \o bodyLines \o <<emptyLine, bottom>>, <<"\n">>)

\* What boxen is called with; its result is the library's.
BoxenCall(lines, u, colorSupported) ==
    [ boxen |-> Join(lines, <<"\n">>),
      borderStyle |-> IF u THEN "round" ELSE "classic",
      borderColor |-> IF colorSupported THEN "blueBright" ELSE "undefined" ]

createBox(c, boxen, u, colorSupported, contentWidth) ==
    IF boxen THEN BoxenCall(BoxWrapped(c, u, contentWidth), u, colorSupported)
    ELSE ManualBox(BoxWrapped(c, u, contentWidth), u)

(***************************************************************************)
(* SpecBox: createBox applied to contents of up to MaxBoxLines lines, with *)
(* and without boxen, for several content widths.                          *)
(***************************************************************************)
BoxLines ==
    { <<>>,
      <<" "," ">>,
      <<"-"," ","a","b"," ","c","d">>,
      <<" ","U+2022"," ","x"," ","U+2013"," ","y">>,
      <<LeftDoubleQuote, "a", RightDoubleQuote, " ", RightSingleQuote, "U+2502">>,
      <<"F","r","o","n","t","e","n","d",":"," ","H","T","M","L",","," ","C","S","S",","," ","J","a","v","a","S","c","r","i","p","t">>,
      <<"a","b","c","d","e","f","g","h","i","j","k","l","m","n","o","p","q","r","s","t","u","v","w","x","y","z">> }

BoxWidths == {-4, 0, 5, 22, 120}

BoxInit ==
    /\ pc = "createBox"
    /\ \E ls \in SeqsUpTo(BoxLines, MaxBoxLines), eol \in EolChoices :
          content = Join(ls, eol)
    /\ unicode \in BOOLEAN
    /\ width \in BoxWidths
    /\ \E b \in BOOLEAN : libs = [NoLibs EXCEPT !.boxen = b]
    /\ box = <<>>
    /\ caps = JUndefined /\ header = JUndefined /\ layout = JUndefined
    /\ terminal = NoTerminal
    /\ inputLine = <<>> /\ wrapped = <<>> /\ sanitized = <<>> /\ resanitized = <<>>
    /\ data = JUndefined
    /\ ParseIdle
    /\ LoadIdle
    /\ PathIdle
    /\ RunIdle
    /\ CliIdle

CreateBox ==
    /\ pc = "createBox"
    /\ wrapped' = BoxWrapped(content, unicode, width)
    /\ box' = createBox(content, libs.boxen, unicode, FALSE, width)
    /\ pc' = "return"
    /\ UNCHANGED <<parseVars, data, loadVars, pathVars, runVars, cliVars,
                   inputLine, width, unicode, sanitized, resanitized,
                   content, libs, caps, header, layout, terminal>>

BoxNext == CreateBox

SpecBox == BoxInit /\ [][BoxNext]_vars

\* The rows of a text: what stands between its "\n".
C11_Rows(t) ==
    LET nl == {i \in 1..Len(t) : t[i] = "\n"}
        cuts == <<0>> \o [k \in 1..Cardinality(nl) |->
                            CHOOSE i \in nl : Cardinality({j \in nl : j < i}) = k - 1]
                     \o <<Len(t) + 1>>
    IN  [k \in 1..(Cardinality(nl) + 1) |-> SubSeq(t, cuts[k] + 1, cuts[k + 1] - 1)]

C11_W == SetMax({20} \cup {Len(wrapped[i]) : i \in 1..Len(wrapped)})

\* C11: the box drawn by hand has the top border, an empty row, one row for
\* each wrapped line, an empty row and the bottom border; with w the larger
\* of 20 and the length of the longest wrapped line, every row is w + 6
\* long, and a body row is the vertical border, two spaces, its wrapped
\* line, spaces up to w, two spaces and the vertical border.
C11_ManualBox ==
    (pc = "return" /\ ~libs.boxen) =>
        LET rows == C11_Rows(box)
            v == IF unicode THEN "U+2502" ELSE "|"
        IN  /\ Len(rows) = Len(wrapped) + 4
            /\ C11_W >= 20
            /\ \A r \in 1..Len(rows) : Len(rows[r]) = C11_W + 6
            /\ \A r \in 2..(Len(rows) - 1) : rows[r][1] = v /\ rows[r][C11_W + 6] = v
            /\ \A r \in {1, Len(rows)} : \A i \in 2..(C11_W + 5) :
                  rows[r][i] = (IF unicode THEN "U+2500" ELSE "-")
            /\ \A r \in {2, Len(rows) - 1} : \A i \in 2..(C11_W + 5) : rows[r][i] = " "
            /\ \A k \in 1..Len(wrapped) :
                  /\ SubSeq(rows[k + 2], 2, 3) = <<" ", " ">>
                  /\ SubSeq(rows[k + 2], 4, 3 + Len(wrapped[k])) = wrapped[k]
                  /\ \A i \in (4 + Len(wrapped[k]))..(C11_W + 5) : rows[k + 2][i] = " "

\* A box around a blank line and a line longer than 20.
C11_Witness ==
    /\ pc = "return"
    /\ ~libs.boxen
    /\ unicode
    /\ Len(wrapped) >= 2
    /\ \E k \in 1..Len(wrapped) : wrapped[k] = <<>>
    /\ \E k \in 1..Len(wrapped) : Len(wrapped[k]) > 20
    /\ Len(C11_Rows(box)) = Len(wrapped) + 4

(***************************************************************************)
(* The sections of a record parsed from a plain-text document.             *)
(***************************************************************************)
PayloadFields == {"items", "categories", "projects", "achievements"}

\* C12: every section of a record loaded from resume.txt or from the
\* embedded document carries exactly one of the payload fields items,
\* categories, projects and achievements.
C12_TaggedVariants ==
    (pc = "return" /\ source \in {"txt", "embedded"}) =>
        \A i \in 1..Len(data.sections) :
            Cardinality(DOMAIN data.sections[i] \cap PayloadFields) = 1

CanonicalTitles == { <<"E","d","u","c","a","t","i","o","n">>, <<"S","k","i","l","l","s">>, <<"P","r","o","j","e","c","t","s">>, <<"A","c","h","i","e","v","e","m","e","n","t","s">> }

\* C13: the title of every section parseTextToJson returns is one of
\* Education, Skills, Projects and Achievements.
C13_CanonicalTitles ==
    (pc = "return") =>
        \A i \in 1..Len(data.sections) : data.sections[i].title \in CanonicalTitles

(***************************************************************************)
(* SpecSegment: parseTextToJson applied to a complete header followed by   *)
(* up to MaxSegmentLines lines.                                            *)
(***************************************************************************)
SegmentHeader == << <<"A","n","n"," ","L","e","e">>, <<"P","u","n","e",","," ","I","N">>, <<" ","a","n","n","@","x",".","i","o"," ">> >>

SegmentInit ==
    /\ pc = "parse"
    /\ \E b \in SeqsUpTo(BodyLines, MaxSegmentLines) : docLines = SegmentHeader \o b
    /\ docEol \in EolChoices
    /\ text = Join(docLines, docEol)
    /\ data = JUndefined
    /\ LoadIdle
    /\ TextIdle
    /\ PathIdle
    /\ RunIdle
    /\ CliIdle
    /\ RenderIdle

SegmentNext == ParseTextToJson

SpecSegment == SegmentInit /\ [][SegmentNext]_vars

\* The positions of the recognized header lines after the three header
\* lines of the document, and the k-th of them.
C14_Headers == {i \in 4..Len(docLines) : isSectionHeader(docLines[i])}
C14_Header(k) == CHOOSE i \in C14_Headers : Cardinality({j \in C14_Headers : j < i}) = k - 1
C14_End(k) ==
    IF k = Cardinality(C14_Headers) THEN Len(docLines) ELSE C14_Header(k + 1) - 1

\* C14: there is one section for each recognized header line, in the order
\* of the header lines; the lines of a section are the lines between its
\* header and the next header (or the end), in their order, so that a line
\* before the first header is in no section and every other line that is no
\* header is in the section of the nearest header before it and in no other.
C14_Segmentation ==
    (pc = "return") =>
        /\ Len(data.sections) = Cardinality(C14_Headers)
        /\ \A k \in 1..Len(data.sections) :
              /\ data.sections[k].title = normalizeHeader(docLines[C14_Header(k)])
              /\ data.sections[k].lines = SubSeq(docLines, C14_Header(k) + 1, C14_End(k))

\* A line before the first header, then a header and a line of its section.
C14_Witness ==
    /\ pc = "return"
    /\ Len(docLines) = 6
    /\ docLines[4] # <<>> /\ ~isSectionHeader(docLines[4])
    /\ isSectionHeader(docLines[5])
    /\ Len(data.sections) = 1
    /\ data.sections[1].lines = << docLines[6] >>
    /\ docLines[6] # <<>>

\* What the contact line holds, said without the order in which a pattern
\* is tried: an e-mail address is a local character, an "@", domain
\* characters, a "." and two letters; a phone number is two digits at least
\* seven apart with digits, spaces and hyphens between them; a LinkedIn
\* handle is a character that is no white space after the word LinkedIn.
C15_HasEmail(l) ==
    \E a \in 2..Len(l) :
        /\ l[a] = "@"
        /\ l[a - 1] \in EmailLocalChars
        /\ \E p \in (a + 2)..(Len(l) - 2) :
              /\ l[p] = "."
              /\ \A k \in (a + 1)..(p - 1) : l[k] \in EmailDomainChars
              /\ l[p + 1] \in LetterChars /\ l[p + 2] \in LetterChars

C15_HasPhone(l) ==
    \E a, b \in 1..Len(l) :
        /\ b - a >= 7
        /\ l[a] \in DigitChars /\ l[b] \in DigitChars
        /\ \A k \in (a + 1)..(b - 1) : l[k] \in PhoneBodyChars

C15_HasLinkedIn(l) ==
    \E i \in 1..Len(l) :
        /\ StartsWithAtCI(l, i, LinkedInKw)
        /\ \E j \in (i + Len(LinkedInKw))..Len(l) : l[j] \notin SpaceChars

C15_Line(i) == IF i <= Len(docLines) THEN docLines[i] ELSE <<>>

\* C15: parseTextToJson returns a record for every text.  A header line the
\* text does not have gives an empty name or location, and each of email,
\* phone and linkedin is null exactly when the contact line holds no e-mail
\* address, no phone number, no LinkedIn handle, whatever the other two are;
\* a field that is not null is a part of the contact line.
C15_NeverRaises ==
    /\ pc \in {"parse", "return"}
    /\ (pc = "return") =>
          /\ DOMAIN data = {"name", "location", "contact", "sections"}
          /\ Len(docLines) < 1 => data.name = <<>>
          /\ Len(docLines) < 2 => data.location = <<>>
          /\ Len(docLines) < 3 =>
                data.contact = [email |-> JNull, phone |-> JNull, linkedin |-> JNull]
          /\ data.contact.email = JNull <=> ~C15_HasEmail(C15_Line(3))
          /\ data.contact.phone = JNull <=> ~C15_HasPhone(C15_Line(3))
          /\ data.contact.linkedin = JNull <=> ~C15_HasLinkedIn(C15_Line(3))
          /\ \A f \in {"email", "phone", "linkedin"} :
                data.contact[f] # JNull => Includes(C15_Line(3), data.contact[f].v)

\* A contact line with a phone number and neither of the other two.
C15_Witness ==
    /\ pc = "return"
    /\ Len(docLines) >= 3
    /\ data.contact.email = JNull
    /\ data.contact.phone = JStr(<<"+","9","1"," ","7","0","2","-","1","1","3"," ","4","1","6","6">>)
    /\ data.contact.linkedin = JNull

(***************************************************************************)
(* Flags outside the option table, and the short forms of the flags.       *)
(***************************************************************************)
\* The flags of ArgPool that setupCLI declares no option for and the
\* interface does not list.
UnknownFlags == { <<"-","-","b","o","g","u","s">>, <<"-","-","p","r","i","n","t">> }

\* argv without its i-th argument.
C16_Without(args, i) == SubSeq(args, 1, i - 1) \o SubSeq(args, i + 1, Len(args))

\* C16: an invocation whose arguments are unknown flags, with or without a
\* value after them, shows the full resume as an invocation without
\* arguments does; and the output action entered for an argv that holds an
\* unknown flag is the one selected for the argv without that flag.
C16_UnknownFlagsIgnored ==
    (Len(ran) = 1 /\ pc \in {"exit", "raised"}) =>
        /\ (\A i \in 1..Len(argv) : argv[i] \in UnknownFlags \cup { <<"1">> }) =>
              /\ ran = << DisplayKey >>
              /\ pc = "exit"
              /\ stdout = << [shown |-> <<"header", "boxedContent", "tip">>] >>
        /\ \A i \in 1..Len(argv) :
              argv[i] \in UnknownFlags =>
                 ran[1] = C9_Expected(parseFlags(setupCLI(C16_Without(argv, i), commander)))

\* An unknown flag before --name, without commander: the name is printed.
C16_Witness ==
    /\ pc = "exit"
    /\ ~commander
    /\ argv = << <<"-","-","b","o","g","u","s">>, <<"-","-","n","a","m","e">> >>
    /\ ran = << NameKey >>
    /\ stdout = << data.name >>

\* The long form of a short flag.
C19_LongForm(a) ==
    IF a = <<"-","n">> THEN <<"-","-","n","a","m","e">>
    ELSE IF a = <<"-","e">> THEN <<"-","-","e","m","a","i","l">>
    ELSE IF a = <<"-","p">> THEN <<"-","-","p","h","o","n","e">>
    ELSE IF a = <<"-","l">> THEN <<"-","-","l","o","c","a","t","i","o","n">>
    ELSE IF a = <<"-","s">> THEN <<"-","-","s","k","i","l","l","s">>
    ELSE IF a = <<"-","j">> THEN <<"-","-","p","r","o","j","e","c","t","s">>
    ELSE IF a = <<"-","a">> THEN <<"-","-","a","c","h","i","e","v","e","m","e","n","t","s">>
    ELSE a

\* C19: the output action entered for an argv is the one selected for the
\* argv with every short flag written in its long form, with commander and
\* without.
C19_ShortFlags ==
    (Len(ran) = 1 /\ pc \in {"exit", "raised"}) =>
        ran[1] = C9_Expected(parseFlags(setupCLI([i \in 1..Len(argv) |-> C19_LongForm(argv[i])],
                                                 commander)))

\* C17: for a width of at least 1 every line wrapText returns, which for a
\* line that is no bullet is every line wrapCore returns, is at most the
\* width long.
C17_WithinWidth ==
    (pc = "return" /\ width >= 1) =>
        \A k \in 1..Len(wrapped) : Len(wrapped[k]) <= width

(***************************************************************************)
(* utils/config: getTerminalCaps and getWidth; utils/formatting:           *)
(* createColors; utils/render: createHeader.                               *)
(***************************************************************************)
\* process.stdout.isTTY is true or undefined, process.stdout.columns a
\* number or undefined; the capabilities hold the truth value of each.
getTerminalCaps(fl, term) ==
    [ unicode |-> ~Truthy(Flag(fl, <<"a","s","c","i","i">>)),
      color |-> ~Truthy(Flag(fl, <<"n","o","C","o","l","o","r">>)) /\ term.isTTY,
      cols |-> IF term.columns = 0 THEN 80 ELSE term.columns,
      isTTY |-> term.isTTY ]

\* The value of a digit in a radix, -1 for a character that is none.
DigitValue(c, radix) ==
    LET hex == <<"0","1","2","3","4","5","6","7","8","9","a","b","c","d","e","f">>
        hits == {i \in 1..radix : hex[i] = LowerChar(c)}
    IN  IF hits = {} THEN -1 ELSE SetMin(hits) - 1

RECURSIVE DigitsValue(_, _)
DigitsValue(s, radix) ==
    IF s = <<>> THEN 0
    ELSE DigitsValue(SubSeq(s, 1, Len(s) - 1), radix) * radix + DigitValue(s[Len(s)], radix)

\* String(value) for a value of a flag.
StringOf(v) ==
    IF v.t = "string" THEN v.v
    ELSE IF v.t = "undefined" THEN <<"u","n","d","e","f","i","n","e","d">>
    ELSE IF v.v THEN <<"t","r","u","e">> ELSE <<"f","a","l","s","e">>

NaN == [nan |-> TRUE, n |-> 0]

\* parseInt(value) without a radix: leading white space is skipped, a sign
\* is read, "0x" or "0X" makes the radix 16, and the digits up to the first
\* character that is none are the number; with no digit the result is NaN.
parseInt(v) ==
    LET s == StringOf(v)
        a == 1 + RunLen(s, 1, SpaceChars)
        signed == a <= Len(s) /\ s[a] \in {"+", "-"}
        b == IF signed THEN a + 1 ELSE a
        hex == b + 1 <= Len(s) /\ s[b] = "0" /\ s[b + 1] \in {"x", "X"}
        radix == IF hex THEN 16 ELSE 10
        c == IF hex THEN b + 2 ELSE b
        stops == {i \in c..Len(s) : DigitValue(s[i], radix) = -1}
        e == IF stops = {} THEN Len(s) ELSE SetMin(stops) - 1
    IN  IF e < c THEN NaN
        ELSE [ nan |-> FALSE,
               n |-> (IF signed /\ s[a] = "-" THEN -1 ELSE 1)
                       * DigitsValue(SubSeq(s, c, e), radix) ]

\* value || 95 for a number: NaN and 0 are falsy.
OrDefault(num, default) == IF num.nan \/ num.n = 0 THEN default ELSE num.n

Min(a, b) == IF a <= b THEN a ELSE b

\* A variant without the limit of 120 characters.
getWidthUnlimited(fl, terminalCols) ==
    [ contentWidth |-> (terminalCols * OrDefault(parseInt(Flag(fl, <<"w","i","d","t","h","P","e","r","c">>)), 95)) \div 100,
      percentage |-> OrDefault(parseInt(Flag(fl, <<"w","i","d","t","h","P","e","r","c">>)), 95) ]

\* Math.floor of the quotient of two integers is \div.
getWidth(fl, terminalCols) ==
    LET percentage == OrDefault(parseInt(Flag(fl, <<"w","i","d","t","h","P","e","r","c">>)), 95)
        maxWidth == (terminalCols * percentage) \div 100
    IN  [contentWidth |-> Min(maxWidth, 120), percentage |-> percentage]

\* createColors: chalk when it is installed, else functions that wrap a text
\* in an ANSI code when colors are supported and return it as it is when not.
createColors(chalk, colorSupported) ==
    IF chalk THEN [bold |-> "chalk.bold", blueBright |-> "chalk.blueBright", gray |-> "chalk.gray"]
    ELSE IF colorSupported
    THEN [bold |-> "ansi 1m", blueBright |-> "ansi 94m", gray |-> "ansi 90m"]
    ELSE [bold |-> "identity", blueBright |-> "identity", gray |-> "identity"]

\* A banner: the upper-cased name, or what figlet draws of the name within a
\* width.
UpperBanner(name) == [figlet |-> FALSE, text |-> ToUpperCase(name), width |-> 0]
FigletBanner(name, cols) == [figlet |-> TRUE, text |-> name, width |-> Min(cols - 2, 120)]

\* A header: a function applied to a banner.
Styled(fn, banner) == [apply |-> fn, to |-> banner]

useFancy(fl, cp) == ~Truthy(Flag(fl, <<"p","l","a","i","n">>)) /\ cp.isTTY
doClear(fl, cp) == ~Truthy(Flag(fl, <<"n","o","C","l","e","a","r">>)) /\ cp.isTTY

\* The banner after the try of figlet: name ? name.toUpperCase() : '', then
\* figletLib.textSync when it is tried and returns.
Banner(name, figletLib, cp, fl) ==
    IF useFancy(fl, cp) /\ figletLib # "absent" /\ name # <<>> /\ figletLib = "works"
    THEN FigletBanner(name, cp.cols)
    ELSE UpperBanner(name)

\* A variant whose catch clause of the gradient returns the banner as it is.
createHeaderBare(name, figletLib, gradientLib, colors, cp, fl) ==
    IF useFancy(fl, cp) /\ gradientLib # "absent" /\ cp.color
    THEN IF gradientLib = "works"
         THEN Styled("gradient.pastel.multiline", Banner(name, figletLib, cp, fl))
         ELSE Styled("identity", Banner(name, figletLib, cp, fl))
    ELSE Styled(colors.bold, Banner(name, figletLib, cp, fl))

\* createHeader after the screen is cleared.  A library is "absent",
\* "works" or "throws".
createHeader(name, figletLib, gradientLib, colors, cp, fl) ==
    IF useFancy(fl, cp) /\ gradientLib # "absent" /\ cp.color
    THEN IF gradientLib = "works"
         THEN Styled("gradient.pastel.multiline", Banner(name, figletLib, cp, fl))
         ELSE Styled(colors.bold, Banner(name, figletLib, cp, fl))
    ELSE Styled(colors.bold, Banner(name, figletLib, cp, fl))

(***************************************************************************)
(* SpecRender: the start of the regular display of main, getTerminalCaps,  *)
(* getWidth and createHeader in turn, for the flags of a command line, a   *)
(* terminal and the optional libraries.                                    *)
(***************************************************************************)
WidthFlag == <<"-","-","w","i","d","t","h","-","p","e","r","c">>

\* Number.prototype.toString of an integer.
IntText(n) == IF n < 0 THEN <<"-">> \o NumberToString(-n) ELSE NumberToString(n)

WidthPercents == {-5, 0, 1, 50, 95, 100, 150, 300}

RenderArgvs ==
    { <<>>, << <<"-","-","p","l","a","i","n">> >>, << <<"-","-","n","o","-","c","o","l","o","r">> >>, << <<"-","-","n","o","-","c","l","e","a","r">> >>,
      << WidthFlag >>, << WidthFlag \o <<"=","a","b","c">> >>, << WidthFlag \o <<"=","1","2","p","x">> >>,
      << WidthFlag \o <<"=","0","x","1","0">> >> }
    \cup { << WidthFlag \o <<"=">> \o IntText(n) >> : n \in WidthPercents }
    \cup { << WidthFlag, IntText(n) >> : n \in WidthPercents }

Terminals ==
    { NoTerminal,
      [isTTY |-> TRUE, columns |-> 40],
      [isTTY |-> TRUE, columns |-> 80],
      [isTTY |-> TRUE, columns |-> 200] }

LibStates == {"absent", "works", "throws"}

RenderNames == { <<>>, <<"A","n","n"," ","L","e","e">> }

RenderInit ==
    /\ pc = "caps"
    /\ argv \in RenderArgvs
    /\ commander \in BOOLEAN
    /\ ~(commander /\ ProgramOpts(argv) = OptionError)
    /\ cliArgs = setupCLI(argv, commander)
    /\ flags = parseFlags(cliArgs)
    /\ ran = <<>>
    /\ written = NotWritten
    /\ terminal \in Terminals
    /\ libs \in [boxen : {FALSE}, figlet : LibStates, gradient : LibStates,
                 clear : BOOLEAN, chalk : BOOLEAN]
    /\ \E n \in RenderNames : data = Resume(n, <<>>)
    /\ content = <<>> /\ box = <<>>
    /\ caps = JUndefined /\ header = JUndefined /\ layout = JUndefined
    /\ ParseIdle
    /\ LoadIdle
    /\ TextIdle
    /\ PathIdle
    /\ RunIdle

GetTerminalCaps ==
    /\ pc = "caps"
    /\ caps' = getTerminalCaps(flags, terminal)
    /\ pc' = "width"
    /\ UNCHANGED <<parseVars, data, loadVars, textVars, pathVars, runVars, cliVars,
                   content, box, libs, header, layout, terminal>>

GetWidth ==
    /\ pc = "width"
    /\ layout' = getWidth(flags, caps.cols)
    /\ pc' = "header"
    /\ UNCHANGED <<parseVars, data, loadVars, textVars, pathVars, runVars, cliVars,
                   content, box, libs, caps, header, terminal>>

\* if (clearLib && doClear) clearLib(), then the header.
CreateHeader ==
    /\ pc = "header"
    /\ stdout' = IF libs.clear /\ doClear(flags, caps)
                 THEN Append(stdout, [shown |-> <<"clear">>]) ELSE stdout
    /\ header' = createHeader(data.name, libs.figlet, libs.gradient,
                              createColors(libs.chalk, caps.color), caps, flags)
    /\ pc' = "return"
    /\ UNCHANGED <<parseVars, data, loadVars, textVars, pathVars, command, arg, stderr,
                   cliVars, content, box, libs, caps, layout, terminal>>

RenderNext == GetTerminalCaps \/ GetWidth \/ CreateHeader

SpecRender == RenderInit /\ [][RenderNext]_vars

\* Whether the banner is drawn by figlet and whether the gradient colors
\* it, said of the terminal, the flags and the libraries.
C18_Fancy == terminal.isTTY /\ ~Truthy(Flag(flags, <<"p","l","a","i","n">>))
C18_BannerDrawn == C18_Fancy /\ libs.figlet = "works" /\ data.name # <<>>
C18_GradientApplied ==
    C18_Fancy /\ libs.gradient = "works" /\ ~Truthy(Flag(flags, <<"n","o","C","o","l","o","r">>))
C18_Bold ==
    IF libs.chalk THEN "chalk.bold"
    ELSE IF terminal.isTTY /\ ~Truthy(Flag(flags, <<"n","o","C","o","l","o","r">>)) THEN "ansi 1m"
    ELSE "identity"
C18_PlainBold == [apply |-> C18_Bold, to |-> UpperBanner(data.name)]

\* C18 as stated: createHeader returns a header, and whenever the banner is
\* not drawn or the gradient is not applied, the header is the bold text of
\* the upper-cased name.
C18_PlainBoldOnAnyFailure ==
    (pc = "return") =>
        /\ DOMAIN header = {"apply", "to"}
        /\ (~C18_BannerDrawn \/ ~C18_GradientApplied) => header = C18_PlainBold

\* C18 as amended: createHeader returns a header in every case.  When the
\* gradient fails or is not available the header is the bold text of the
\* banner; when figlet fails or is not available the banner is the
\* upper-cased name; so when both fail or are not available the header is
\* the bold text of the upper-cased name.
C18_BestEffort ==
    /\ pc \in {"caps", "width", "header", "return"}
    /\ (pc = "return") =>
          /\ DOMAIN header = {"apply", "to"}
          /\ ~C18_GradientApplied => header.apply = C18_Bold
          /\ C18_GradientApplied => header.apply = "gradient.pastel.multiline"
          /\ ~C18_BannerDrawn => header.to = UpperBanner(data.name)
          /\ C18_BannerDrawn => header.to.figlet /\ header.to.text = data.name
          /\ (~C18_BannerDrawn /\ ~C18_GradientApplied) => header = C18_PlainBold

\* figlet and the gradient both throw on a color terminal: plain bold text.
C18_Witness ==
    /\ pc = "return"
    /\ terminal.isTTY
    /\ flags = parseFlags(<<>>)
    /\ libs.figlet = "throws" /\ libs.gradient = "throws" /\ ~libs.chalk
    /\ data.name = <<"A","n","n"," ","L","e","e">>
    /\ header = [apply |-> "ansi 1m", to |-> UpperBanner(<<"A","n","n"," ","L","e","e">>)]
    /\ header.to.text = <<"A","N","N"," ","L","E","E">>

\* The integer of a --width-perc=N argument, or none.
C20_Given == {n \in -10..310 : Len(argv) = 1 /\ argv[1] = WidthFlag \o <<"=">> \o IntText(n)}
C20_Cols == IF terminal.isTTY THEN terminal.columns ELSE 80

C21_Count(t, c) == Cardinality({i \in 1..Len(t) : t[i] = c})

C21_Out == Join(wrapped, <<"\n">>)

C21_Dashed == {Bullet, EnDash, EmDash} \cup BoxChars

C21_Quotes == {LeftDoubleQuote, RightDoubleQuote, LeftSingleQuote, RightSingleQuote}

C21_Blank == {" ", "\n", "\r", "\t"}

\* C21: characters are replaced in non-Unicode mode only.  With unicode
\* true the lines createBox wraps hold every character of the content that
\* is not white space as often as the content does, the bullets among them;
\* with unicode false they hold no bullet, en or em dash, box-drawing
\* character or smart quote: each of the first three kinds has become a "-"
\* and each smart quote the ASCII quote.
C21_SubstitutionOnlyInAscii ==
    pc = "return" =>
        /\ unicode =>
              \A i \in 1..Len(content) :
                  content[i] \notin C21_Blank =>
                      C21_Count(C21_Out, content[i]) = C21_Count(content, content[i])
        /\ ~unicode =>
              /\ \A c \in C21_Dashed \cup C21_Quotes : C21_Count(C21_Out, c) = 0
              /\ C21_Count(C21_Out, "-") =
                     C21_Count(content, "-")
                     + Cardinality({i \in 1..Len(content) : content[i] \in C21_Dashed})
              /\ C21_Count(C21_Out, "\"") =
                     C21_Count(content, "\"")
                     + Cardinality({i \in 1..Len(content) :
                                       content[i] \in {LeftDoubleQuote, RightDoubleQuote}})


(***************************************************************************)
(* C22: --no-color and the terminal decide whether colors are used.        *)
(***************************************************************************)
C22_NoColorGiven == \E i \in 1..Len(argv) : argv[i] = <<"-","-","n","o","-","c","o","l","o","r">>

\* The functions that write color codes of their own accord; what chalk
\* writes is chalk's decision.
C22_Colored == {"ansi 1m", "ansi 94m", "ansi 90m", "gradient.pastel.multiline"}

\* C22: when --no-color is given, with or without commander, the
\* capabilities getTerminalCaps returns have color false and the header is
\* drawn by no function that writes color codes; color is false as well
\* whenever the standard output is no terminal.
C22_NoColorHonoured ==
    pc = "return" =>
        /\ C22_NoColorGiven => (~caps.color /\ header.apply \notin C22_Colored)
        /\ ~terminal.isTTY => ~caps.color


(***************************************************************************)
(* utils/json: toJsonResume.  A value that may be undefined is JStr(s) or  *)
(* JUndefined; a value that is always a string is the string.              *)
(***************************************************************************)
\* value || undefined for a field that holds null or a string, or is absent.
OrUndefined(r, f) == IF f \in DOMAIN r /\ Truthy(r[f]) THEN r[f] ELSE JUndefined

\* value || undefined for a field that holds a string when present.
TextOrUndefined(r, f) == IF TextOf(r, f) # <<>> THEN JStr(TextOf(r, f)) ELSE JUndefined

\* array || [] for a field that holds an array when present.
ArrayOf(r, f) == IF f \in DOMAIN r THEN r[f] ELSE <<>>

\* loc.match(/^\s*([^,]+)\s*,\s*([A-Za-z]{2})\s*$/): one comma, something
\* before it, two letters after it; the city is what stands before the
\* comma without the leading white space the pattern can leave out.
parseLocation(loc) ==
    IF loc = <<>> THEN JUndefined
    ELSE LET commas == {i \in 1..Len(loc) : loc[i] = ","}
             c == SetMin(commas)
             before == SubSeq(loc, 1, c - 1)
             code == Trim(SubSeq(loc, c + 1, Len(loc)))
             lead == RunLen(before, 1, SpaceChars)
             from == IF lead >= Len(before) THEN Len(before) ELSE lead + 1
         IN  IF /\ Cardinality(commas) = 1
                /\ before # <<>>
                /\ Len(code) = 2
                /\ \A i \in 1..Len(code) : code[i] \in LetterChars
             THEN [city |-> SubSeq(before, from, Len(before)), countryCode |-> code]
             ELSE [region |-> loc]

linkifyLinkedIn(handle) ==
    LET h == Trim(handle)
    IN  IF StartsWithAtCI(h, 1, <<"h","t","t","p",":","/","/">>) \/ StartsWithAtCI(h, 1, <<"h","t","t","p","s",":","/","/">>)
        THEN h
        ELSE IF StartsWithAtCI(h, 1, <<"i","n","/">>)
        THEN <<"h","t","t","p","s",":","/","/","l","i","n","k","e","d","i","n",".","c","o","m","/">> \o h
        ELSE <<"h","t","t","p","s",":","/","/","l","i","n","k","e","d","i","n",".","c","o","m","/","i","n","/">>
                 \o (IF h # <<>> /\ h[1] = "@" THEN Tail(h) ELSE h)

MonthNames ==
    << <<"j","a","n">>, <<"f","e","b">>, <<"m","a","r">>, <<"a","p","r">>, <<"m","a","y">>, <<"j","u","n">>,
       <<"j","u","l">>, <<"a","u","g">>, <<"s","e","p">>, <<"o","c","t">>, <<"n","o","v">>, <<"d","e","c">> >>

MonthNumbers ==
    << <<"0","1">>, <<"0","2">>, <<"0","3">>, <<"0","4">>, <<"0","5">>, <<"0","6">>,
       <<"0","7">>, <<"0","8">>, <<"0","9">>, <<"1","0">>, <<"1","1">>, <<"1","2">> >>

\* /([A-Za-z]{3,})\s+(\d{4})/ tried at position i: the lengths of the run of
\* letters and of the white space after it, or <<>>.
MonthYearAt(s, i) ==
    LET r == RunLen(s, i, LetterChars)
        w == RunLen(s, i + r, SpaceChars)
    IN  IF r >= 3 /\ w >= 1 /\ RunLen(s, i + r + w, DigitChars) >= 4
        THEN <<r, w>>
        ELSE <<>>

\* The ISO date of the leftmost match of the pattern in s, undefined when
\* there is none: months[m[1].toLowerCase().slice(0, 3)] || '01' is the
\* month.
parseMonthYear(s) ==
    LET hits == {i \in 1..Len(s) : MonthYearAt(s, i) # <<>>}
        i == SetMin(hits)
        m == MonthYearAt(s, i)
        key == ToLowerCase(SubSeq(s, i, i + 2))
        year == SubSeq(s, i + m[1] + m[2], i + m[1] + m[2] + 3)
        known == {k \in 1..12 : MonthNames[k] = key}
        mm == IF known = {} THEN <<"0","1">> ELSE MonthNumbers[SetMin(known)]
    IN  IF hits = {} THEN JUndefined
        ELSE JStr(year \o <<"-">> \o mm \o <<"-","0","1">>)

\* period.split('-'): the pieces between the hyphens, empty ones included.
RECURSIVE SplitHyphens(_)
SplitHyphens(s) ==
    LET hyphens == {i \in 1..Len(s) : s[i] = "-"}
    IN  IF hyphens = {} THEN <<s>>
        ELSE <<SubSeq(s, 1, SetMin(hyphens) - 1)>>
                 \o SplitHyphens(SubSeq(s, SetMin(hyphens) + 1, Len(s)))

\* The conversion of a part of a period; it is the one of parseMonthYear.
toDate(s) == parseMonthYear(s)

parsePeriod(period) ==
    LET parts == [k \in 1..Len(SplitHyphens(period)) |-> Trim(SplitHyphens(period)[k])]
    IN  IF period = <<>> THEN [startDate |-> JUndefined, endDate |-> JUndefined]
        ELSE IF Len(parts) = 2
        THEN [startDate |-> toDate(parts[1]), endDate |-> toDate(parts[2])]
        ELSE [startDate |-> JUndefined, endDate |-> toDate(parts[1])]

\* s.replace(/\s*CGPA/i, ''): the leftmost match is taken out.
RemoveCGPA(s) ==
    LET hits == {i \in 1..Len(s) :
                    StartsWithAtCI(s, i + RunLen(s, i, SpaceChars), <<"C","G","P","A">>)}
        i == SetMin(hits)
    IN  IF hits = {} THEN s
        ELSE SubSeq(s, 1, i - 1)
                 \o SubSeq(s, i + RunLen(s, i, SpaceChars) + 4, Len(s))

\* The entries processEducation pushes for a section.
processEducation(section) ==
    [k \in 1..Len(ArrayOf(section, "items")) |->
        LET item == section.items[k]
            raw == IF TextOf(item, "gpa") # <<>> THEN item.gpa ELSE TextOf(item, "score")
            score == Trim(RemoveCGPA(raw))
        IN  [ institution |-> TextOf(item, "institution"),
              area |-> IF TextOf(item, "degree") # <<>> THEN item.degree
                       ELSE TextOf(item, "score"),
              studyType |-> IF TextOf(item, "degree") # <<>>
                            THEN JStr(<<"B","a","c","h","e","l","o","r">>) ELSE JUndefined,
              score |-> IF score = <<>> THEN JUndefined ELSE JStr(score),
              startDate |-> parsePeriod(TextOf(item, "period")).startDate,
              endDate |-> parsePeriod(TextOf(item, "period")).endDate,
              location |-> TextOrUndefined(item, "location") ]]

processSkills(section) ==
    [k \in 1..Len(ArrayOf(section, "categories")) |->
        LET cat == section.categories[k]
        IN  [ name |-> IF TextOf(cat, "name") # <<>> THEN cat.name ELSE <<"S","k","i","l","l","s">>,
              keywords |-> ArrayOf(cat, "skills") ]]

processProjects(section) ==
    [k \in 1..Len(ArrayOf(section, "projects")) |->
        LET p == section.projects[k]
            links == IF "links" \in DOMAIN p THEN p.links ELSE [github |-> JNull]
        IN  [ name |-> TextOf(p, "name"),
              description |-> TextOrUndefined(p, "subtitle"),
              highlights |-> ArrayOf(p, "highlights"),
              keywords |-> ArrayOf(p, "stack"),
              url |-> IF OrUndefined(links, "demo") # JUndefined
                      THEN links.demo ELSE OrUndefined(links, "github") ]]

processAwards(section) ==
    [k \in 1..Len(ArrayOf(section, "achievements")) |->
        LET a == section.achievements[k]
        IN  [ title |-> TextOf(a, "name"),
              date |-> parseMonthYear(TextOf(a, "date")),
              awarder |-> JUndefined,
              summary |-> JUndefined ]]

\* The array a section is exported into, by the chain of title.startsWith.
SectionArray(section) ==
    LET title == ToLowerCase(TextOf(section, "title"))
    IN  IF StartsWith(title, <<"e","d","u","c","a","t","i","o","n">>) THEN "education"
        ELSE IF StartsWith(title, <<"s","k","i","l","l","s">>) THEN "skills"
        ELSE IF StartsWith(title, <<"p","r","o","j","e","c","t","s">>) THEN "projects"
        ELSE IF StartsWith(title, <<"a","c","h","i","e","v","e","m","e","n","t","s">>) \/ StartsWith(title, <<"c","e","r","t","i","f","i","c","a","t","i","o","n","s">>)
        THEN "awards"
        ELSE "none"

\* What the section pushes to the array named.
Processed(array, section) ==
    IF array = "education" THEN processEducation(section)
    ELSE IF array = "skills" THEN processSkills(section)
    ELSE IF array = "projects" THEN processProjects(section)
    ELSE processAwards(section)

\* An array after the loop over data.sections.
ExportedArray(d, array) ==
    ForEach([i \in 1..Len(d.sections) |->
                IF SectionArray(d.sections[i]) = array
                THEN Processed(array, d.sections[i]) ELSE <<>>])

toJsonResume(d) ==
    [ schema |-> <<"h","t","t","p","s",":","/","/","r","a","w",".","g","i","t","h","u","b","u","s","e","r","c","o","n","t","e","n","t",".","c","o","m","/","j","s","o","n","r","e","s","u","m","e","/","r","e","s","u","m","e","-","s","c","h","e","m","a","/","v","1",".","0",".","0","/","s","c","h","e","m","a",".","j","s","o","n">>,
      basics |-> [ name |-> d.name,
                   email |-> OrUndefined(d.contact, "email"),
                   phone |-> OrUndefined(d.contact, "phone"),
                   location |-> parseLocation(TextOf(d, "location")),
                   profiles |-> IF OrUndefined(d.contact, "linkedin") # JUndefined
                                THEN << [ network |-> <<"L","i","n","k","e","d","I","n">>,
                                          username |-> d.contact.linkedin.v,
                                          url |-> linkifyLinkedIn(d.contact.linkedin.v) ] >>
                                ELSE <<>> ],
      education |-> ExportedArray(d, "education"),
      skills |-> ExportedArray(d, "skills"),
      projects |-> ExportedArray(d, "projects"),
      awards |-> ExportedArray(d, "awards") ]

(***************************************************************************)
(* SpecExport: toJsonResume applied to records as resume.json holds them,  *)
(* with up to MaxSections sections, and to records whose education section *)
(* holds an item of each period.                                           *)
(***************************************************************************)
\* Month Year dates as they are written, each with its ISO date.
MonthYears ==
    { [text |-> <<"D","e","c"," ","2","0","2","0">>, iso |-> <<"2","0","2","0","-","1","2","-","0","1">>],
      [text |-> <<"M","a","y"," ","2","0","2","4">>, iso |-> <<"2","0","2","4","-","0","5","-","0","1">>],
      [text |-> <<"J","u","l"," ","2","0","2","5">>, iso |-> <<"2","0","2","5","-","0","7","-","0","1">>],
      [text |-> <<"S","e","p","t","e","m","b","e","r"," "," ","2","0","1","9">>, iso |-> <<"2","0","1","9","-","0","9","-","0","1">>],
      [text |-> <<"J","A","N"," ","2","0","2","3">>, iso |-> <<"2","0","2","3","-","0","1","-","0","1">>] }

\* The ways a range is written with a hyphen.
RangeSeparators == { <<" ","-"," ">>, <<"-">>, <<" ","-"," "," ">> }

\* Texts that hold no Month Year date.
Undated == { <<"P","r","e","s","e","n","t">>, <<"a","b","c">>, <<"2","0","2","0">>, <<"D","e","c","-","2","0","2","0">>, <<"a"," ","-"," ","b"," ","-"," ","c">> }

Periods ==
    { <<>> }
    \cup { a.text : a \in MonthYears }
    \cup { <<"S","i","n","c","e"," ">> \o a.text : a \in MonthYears }
    \cup { a.text \o <<" ","(","e","x","p","e","c","t","e","d",")">> : a \in MonthYears }
    \cup { a.text \o s \o b.text : a \in MonthYears, s \in RangeSeparators, b \in MonthYears }
    \cup { a.text \o s \o <<"P","r","e","s","e","n","t">> : a \in MonthYears, s \in RangeSeparators }
    \cup { <<"2","0","2","0">> \o s \o a.text : a \in MonthYears, s \in RangeSeparators }
    \cup { a.text \o <<" ","U+2013"," ">> \o b.text : a \in MonthYears, b \in MonthYears }
    \cup { a.text \o <<" ","-"," ">> \o b.text \o <<" ","(","p","a","r","t","-","t","i","m","e",")">> : a \in MonthYears, b \in MonthYears }
    \cup Undated

Institution(period) ==
    [ institution |-> <<"I","G","C","E">>, location |-> <<"G","h","a","n","s","o","l","i">>, degree |-> <<"B",".","E",".">>,
      score |-> <<"C","G","P","A",":"," ","8",".","2">>, period |-> period ]

SkillCategory(name) == [ name |-> name, skills |-> << <<"H","T","M","L">>, <<"C","S","S">> >> ]

Achievement(name) == [ name |-> name, date |-> <<"J","u","l"," ","2","0","2","5">> ]

ExportSections ==
    { [ title |-> <<"E","d","u","c","a","t","i","o","n">>, items |-> << Institution(<<"D","e","c"," ","2","0","2","0"," ","-"," ","M","a","y"," ","2","0","2","4">>) >> ],
      [ title |-> <<"E","D","U","C","A","T","I","O","N">>,
        items |-> << [ institution |-> <<"N","M","M","C">>, gpa |-> <<"9","1","%">> ], Institution(<<>>) >> ],
      [ title |-> <<"S","k","i","l","l","s">>, categories |-> << SkillCategory(<<"B","a","c","k","e","n","d">>) >> ],
      [ title |-> <<"T","e","c","h","n","i","c","a","l"," ","S","k","i","l","l","s">>,
        categories |-> << SkillCategory(<<"F","r","o","n","t","e","n","d">>), SkillCategory(<<>>) >> ],
      [ title |-> <<"P","r","o","j","e","c","t","s">>,
        projects |-> << Project(<<"T","i","m","e","l","i","n","e">>, RepoLink), Project(<<"A","t","l","a","s"," ","2">>, NoLinks) >> ],
      [ title |-> <<"A","c","h","i","e","v","e","m","e","n","t","s">>, achievements |-> << Achievement(<<"M","o","n","g","o","D","B"," ","P","a","t","h">>) >> ],
      [ title |-> <<"C","e","r","t","i","f","i","c","a","t","i","o","n","s">>,
        achievements |-> << Achievement(<<"A","W","S">>), Achievement(<<"G","C","P">>) >> ],
      [ title |-> <<"S","k","i","l","l","s">>, lines |-> << <<"F","r","o","n","t","e","n","d",":"," ","H","T","M","L",","," ","C","S","S">> >> ] }

ExportHeaders ==
    { [ name |-> <<"A","n","n"," ","L","e","e">>, location |-> <<"P","u","n","e",","," ","I","N">>,
        contact |-> [ email |-> JStr(<<"a","@","b",".","c","o","m">>), phone |-> JNull, linkedin |-> JStr(<<"a","n","n">>) ] ],
      [ name |-> <<>>, location |-> <<"A","s","i","a">>,
        contact |-> [ email |-> JNull, phone |-> JStr(<<"+","9","1"," ","7","0","2","1","1"," ","3","4","1","6","6">>),
                      linkedin |-> JStr(<<" ","@","i","n","/","a","n","n"," ">>) ] ],
      [ name |-> <<"B","o">>, location |-> <<>>,
        contact |-> [ email |-> JNull, phone |-> JNull, linkedin |-> JNull ] ] }

ExportRecord(h, sections) ==
    [ name |-> h.name, location |-> h.location, contact |-> h.contact, sections |-> sections ]

ExportRecords ==
    { ExportRecord(h, s) : h \in ExportHeaders, s \in SeqsUpTo(ExportSections, MaxSections) }
    \cup { ExportRecord(h, << [ title |-> <<"E","d","u","c","a","t","i","o","n">>, items |-> << Institution(p) >> ] >>) :
              h \in ExportHeaders, p \in Periods }

ExportInit ==
    /\ pc = "export"
    /\ data \in ExportRecords
    /\ obj = JUndefined /\ steps = <<>> /\ pathExpr = <<>> /\ result = JUndefined
    /\ ParseIdle
    /\ LoadIdle
    /\ TextIdle
    /\ RunIdle
    /\ CliIdle
    /\ RenderIdle

ToJsonResume ==
    /\ pc = "export"
    /\ result' = toJsonResume(data)
    /\ pc' = "return"
    /\ UNCHANGED <<parseVars, data, loadVars, textVars, obj, steps, pathExpr, runVars,
                   cliVars, renderVars>>

ExportNext == ToJsonResume

SpecExport == ExportInit /\ [][ExportNext]_vars

(***************************************************************************)
(* C23: the section the lookup finds and the sections the export reads.    *)
(***************************************************************************)
\* The types the handlers look up, each with the payload field of its
\* sections and the array of the export.
C23_Types ==
    { [type |-> <<"e","d","u","c","a","t","i","o","n">>, field |-> "items", array |-> "education"],
      [type |-> <<"s","k","i","l","l">>, field |-> "categories", array |-> "skills"],
      [type |-> <<"p","r","o","j","e","c","t">>, field |-> "projects", array |-> "projects"],
      [type |-> <<"a","c","h","i","e","v","e","m","e","n","t">>, field |-> "achievements", array |-> "awards"] }

\* C23: for every record and every type the section getSection finds is the
\* section toJsonResume exports into the array of the type: the array holds
\* the entries of that section, one for each element of its payload in the
\* stored order, and is empty when no section is found.
C23_SameClassification ==
    pc = "return" =>
        \A t \in C23_Types :
            LET i == getSection(data, t.type)
            IN  /\ Len(result[t.array]) = Len(Payload(data, t.type, t.field))
                /\ result[t.array] =
                       (IF i = 0 THEN <<>> ELSE Processed(t.array, data.sections[i]))

(***************************************************************************)
(* C24: the dates parsePeriod reads from a period.                         *)
(***************************************************************************)
\* A record with an education section of one item.
C24_OneItem ==
    /\ pc = "return"
    /\ Len(data.sections) = 1
    /\ data.sections[1].title = <<"E","d","u","c","a","t","i","o","n">>
    /\ Len(data.sections[1].items) = 1
    /\ Len(result.education) = 1

C24_Period == data.sections[1].items[1].period

\* The ways the range from a to b is written.
C24_Ranges(a, b) ==
    { a.text \o s \o b.text : s \in RangeSeparators }
    \cup { a.text \o <<" ","U+2013"," ">> \o b.text, a.text \o <<" ","-"," ">> \o b.text \o <<" ","(","p","a","r","t","-","t","i","m","e",")">> }

\* C24: for a range "A - B" of two Month Year dates startDate is the ISO
\* date of A and endDate that of B; for a period that holds a single Month
\* Year date startDate is undefined and endDate is that date; for an empty
\* period and for one that holds no date both are undefined; and no range
\* from A to B is reported with the date of A as its endDate.
C24_SingleOrRange ==
    C24_OneItem =>
        LET e == result.education[1]
        IN  /\ \A a \in MonthYears, b \in MonthYears, s \in RangeSeparators :
                  C24_Period = a.text \o s \o b.text =>
                      e.startDate = JStr(a.iso) /\ e.endDate = JStr(b.iso)
            /\ \A a \in MonthYears :
                  C24_Period \in {a.text, <<"S","i","n","c","e"," ">> \o a.text, a.text \o <<" ","(","e","x","p","e","c","t","e","d",")">>} =>
                      e.startDate = JUndefined /\ e.endDate = JStr(a.iso)
            /\ C24_Period \in {<<>>} \cup Undated =>
                  e.startDate = JUndefined /\ e.endDate = JUndefined
            /\ \A a \in MonthYears, b \in MonthYears :
                  (a # b /\ C24_Period \in C24_Ranges(a, b)) => e.endDate # JStr(a.iso)

\* The part of C24 about the periods written as a date or as two dates with
\* one hyphen between them and nothing else.
C24_PlainPeriods ==
    C24_OneItem =>
        LET e == result.education[1]
        IN  /\ \A a \in MonthYears, b \in MonthYears, s \in RangeSeparators :
                  C24_Period = a.text \o s \o b.text =>
                      e.startDate = JStr(a.iso) /\ e.endDate = JStr(b.iso)
            /\ \A a \in MonthYears :
                  C24_Period \in {a.text, <<"S","i","n","c","e"," ">> \o a.text, a.text \o <<" ","(","e","x","p","e","c","t","e","d",")">>} =>
                      e.startDate = JUndefined /\ e.endDate = JStr(a.iso)
            /\ C24_Period \in {<<>>} \cup Undated =>
                  e.startDate = JUndefined /\ e.endDate = JUndefined

(***************************************************************************)
(* C25: the words of a wrapped text.                                       *)
(***************************************************************************)
\* The words of a text: its longest runs of characters that are no white
\* space, in order.
RECURSIVE C25_Words(_)
C25_Words(s) ==
    IF s = <<>> THEN <<>>
    ELSE IF s[1] \in SpaceChars THEN C25_Words(Tail(s))
    ELSE LET gaps == {i \in 1..Len(s) : s[i] \in SpaceChars}
             n == IF gaps = {} THEN Len(s) ELSE SetMin(gaps) - 1
         IN  <<SubSeq(s, 1, n)>> \o C25_Words(SubSeq(s, n + 1, Len(s)))

\* The words of the lines, read line by line.
C25_LineWords == ForEach([k \in 1..Len(wrapped) |-> C25_Words(wrapped[k])])

\* The bullet wrapText draws and the words after the bullet of the line.
C25_Bullet == IF unicode THEN Bullet ELSE "-"
C25_Rest ==
    C25_Words(SubSeq(inputLine, C3_PrefixLen(inputLine), Len(inputLine)))

\* C25: wrapping loses and reorders nothing.  Every returned line is
\* non-empty; the words of the lines, read line by line, are the words of
\* the text in their order, and for a bullet line they are the bullet
\* followed by the words after it; the wrapping ends for every width, those
\* below the longest word and those of zero or less included.
C25_NothingLost ==
    pc = "return" =>
          /\ \A k \in 1..Len(wrapped) : wrapped[k] # <<>>
          /\ IF C3_IsBulletLine(inputLine)
             THEN C25_LineWords = << <<C25_Bullet>> >> \o C25_Rest
             ELSE C25_LineWords = C25_Words(inputLine)

\* The part of C25 that leaves out the bullet with no word after it, which
\* is wrapped into no line at all.
C25_NothingLostButBareBullet ==
    pc = "return" =>
          /\ \A k \in 1..Len(wrapped) : wrapped[k] # <<>>
          /\ IF C3_IsBulletLine(inputLine)
             THEN IF C25_Rest = <<>> THEN wrapped = <<>>
                  ELSE C25_LineWords = << <<C25_Bullet>> >> \o C25_Rest
             ELSE C25_LineWords = C25_Words(inputLine)

====
